---- MODULE Spec2Model ----
(***************************************************************************)
(* A model of the peer-to-peer transport core of goloop                    *)
(* (src/network/transport.go): the handler chain built by NewTransport,    *)
(* the per-peer receive and send routines, the close protocol of a Peer    *)
(* and the duplicate-suppressing priority send path.                       *)
(*                                                                         *)
(* Spec       one connection from accept/dial through the handler chain to *)
(*            an overlay, with the goroutines that can close it.           *)
(* SpecSend   a peer held by an overlay: callers of Peer.send and the send *)
(*            routine's drain, whose writes can fail.                      *)
(* SpecClose  a peer held by an overlay: the receive routine, the send     *)
(*            routine and the overlay close it concurrently.               *)
(* SpecDedup  a peer held by an overlay: Peer.send against the duplicate   *)
(*            pool, which the two routines fill and the sweep empties.     *)
(* SpecIsDup  isDuplicatedToSend on every packet and pool.                 *)
(* SpecDrain  one caller of Peer.send with packets of every priority, the  *)
(*            drain of the send routine, no errors.                        *)
(* SpecProgress  as SpecDrain with a caller that never stops, under weak   *)
(*            fairness of the send routine.                                *)
(* SpecWrite  sendDirect step by step for the send routine and callers of  *)
(*            sendMessage.                                                 *)
(* SpecTemporary  a connection whose errors are all temporary.             *)
(* SpecPanic  the two routines when the code they run can panic.           *)
(* SpecListener  the Listener: goroutines calling Listen and Close, and the *)
(*            accept routine.                                              *)
(* SpecFields the accessors of the properties of a Peer and their locks.   *)
(* SpecSync   the state sync client (src/service/sync): requests, their    *)
(*            timers, replies and timeouts.                                *)
(* SpecValidate  NetAddress.Validate on addresses of every form.           *)
(* SpecFlood  several nodes joined by Peers, and one packet broadcast.     *)
(* SpecShutdown  a closed peer: its routines end and WaitClose returns,    *)
(*            under weak fairness of every goroutine.                      *)
(* SpecManager  the sync Manager (src/service/sync/manager.go): joins,     *)
(*            leaves, messages, new syncers and their callbacks.           *)
(* SpecManagerLive  as SpecManager, under weak fairness of the calls.      *)
(* SpecToken  the SampleToken contract: deployment and transfers.          *)
(* SpecRpc    a wait call of the JSON-RPC server (src/server/v3): result,  *)
(*            timer and end of the request racing.                         *)
(* SpecHeight the JSON-RPC methods that take a height; the base height.    *)
(***************************************************************************)
EXTENDS Integers, Sequences, FiniteSets, TLC

(***************************************************************************)
(* Bounds of the model.                                                    *)
(***************************************************************************)
MaxReads == 4      \* reads of the receive routine
MaxExtClose == 1   \* Close calls of the overlay's goroutine
MaxSends == 2      \* Peer.send calls in SpecSend
MaxRelays == 1     \* Peer.send calls in SpecDedup
NumPrio == 2       \* priority levels of the send queue
QueueSize == 2     \* capacity of one level of the send queue
PoolExpire == 1    \* seconds a hash stays in the duplicate pool
MaxDrainSends == 4 \* Peer.send calls in SpecDrain
MaxMsgs == 2       \* peerHandler.sendMessage calls in SpecWrite
MaxLsnCalls == 3   \* calls of Listener.Listen and Listener.Close
MaxAccepts == 2    \* connections the accept routine takes
MaxFieldCalls == 3 \* calls of the accessors of the Peer's properties
MaxRequests == 3   \* calls of client.hasNode and client.requestNodeData
MaxPortLen == 5    \* characters of the port of an address
MaxMgrCalls == 4   \* calls of the methods of the sync Manager
MaxSyncers == 2    \* calls of Manager.NewSyncer
MaxTransfers == 3  \* calls of SampleToken.transfer
MaxDecimals == 1   \* decimals of the token
MaxInitialSupply == 2 \* initial supply, in whole tokens
MaxValue == 3      \* value of a transfer
MaxTimeout == 2    \* greatest timeout of a wait call, in ticks
MaxHeight == 3     \* height of the last block of the chain
MaxTicks == 3      \* steps of the clock of the state sync

(***************************************************************************)
(* Names.                                                                  *)
(***************************************************************************)
Channels == {"main", "aux"}
Overlays == {"p2p_main", "p2p_aux"}
Handlers == {"pd", "cn", "a"}
Threads == {"accept", "recv", "send", "ext", "s1", "s2"}
Senders == {"s1", "s2"}
Hashes == {1, 2}   \* the hashes packets have
Prios == 0..(NumPrio - 1)
NoPacket == [seq |-> 0]
NoHandler == "nil"
DefaultCb == "default"

\* PeerToPeer.channel of each overlay instance
P2PChannel(o) == IF o = "p2p_main" THEN "main" ELSE "aux"

\* the two-round identity / session-key exchange of the Authenticator
AuthRounds == 2

VARIABLES
  \* ---- Peer fields
  inbound,      \* Peer.in
  channel,      \* Peer.channel ("" until known)
  id,           \* Peer.id ("nil" until authenticated)
  closed,       \* Peer.closed (int32, 0 or 1)
  cbPacket,     \* Peer.onPacket
  cbError,      \* Peer.onError
  cbClose,      \* Peer.onClose
  once,         \* number of times Peer.once ran its function
  connCloseN,   \* number of conn.Close() calls
  chanCloseN,   \* number of close(p.close) executions
  closeInfoN,   \* len(closeReason) + len(closeErr)
  q,            \* Peer.q : priority level -> FIFO of packets
  pool,         \* Peer.pool : hash -> second of insertion, -1 when absent
  \* ---- time
  sweepDue,     \* secondTick has fired since the last sweep
  \* ---- PeerDispatcher
  p2pMap,       \* PeerDispatcher.p2pMap : channel -> overlay
  \* ---- goroutines
  pc,           \* position of each goroutine
  clRet,        \* where a goroutine continues when its Close call returns
  clCb,         \* the close callback a goroutine fetched in _close
  cur,          \* the handler whose nextOnPeer a goroutine is running
  tgt,          \* the overlay PeerDispatcher.onPeer found
  rcb,          \* the callback the receive routine fetched
  rkind,        \* what the receive routine read
  authRound,    \* rounds of the Authenticator completed
  reads,        \* reads done by the receive routine
  extCloses,    \* Close calls made by the overlay's goroutine
  srPkt,        \* the packet the send routine popped
  spkt,         \* the packet of each Peer.send call in progress
  sends,        \* Peer.send calls made
  \* ---- the connection
  wire,         \* packets written to the connection, in order
  nextSeq,      \* number of successful Push calls (numbers the packets)
  inv,          \* writes of the current drain made while a more urgent packet waited
  \* ---- history
  closeCbN,     \* number of close callback invocations
  closeCbTo,    \* the handlers / overlays whose onClose was invoked
  events,       \* events delivered to handlers and overlays
  passed,       \* handlers that forwarded the peer, in order
  firstHandler, \* the handler dispatchPeer gave the peer to
  onPeerCalled, \* handlers whose onPeer was called
  handed,       \* overlays whose onPeer was called
  noP2P,        \* PeerDispatcher.onPeer found no overlay
  overlayPeers, \* overlays whose tables hold the peer
  received,     \* hashes of the packets read from the peer
  sret,         \* what Peer.send returns to its caller
  cnt,          \* the Counter of the context of each Peer.send call
  sendMtx,      \* Peer.sendMtx : the goroutine that holds it, or "none"
  raw,          \* what the goroutines gave to the connection, in order
  msgs,         \* sendMessage calls made
  \* ---- Listener
  lsn,          \* the Listener: its fields, its accept routine, its callers
  \* ---- Peer properties
  fld,          \* the properties of the Peer, their locks, their accessors
  \* ---- state sync
  syn,          \* the sync peers, their request timers, the syncer's view
  \* ---- NetAddress
  adr,          \* an address, and what Validate returned for it
  \* ---- several nodes
  net,          \* nodes, their links, the Peers at both ends, one broadcast
  \* ---- state sync Manager
  mgr,          \* the sync Manager: pool, syncer, mutex, its callers
  \* ---- SampleToken
  tok,          \* the SampleToken contract: its supply and balances
  \* ---- JSON-RPC server
  rpc,          \* one wait call of the JSON-RPC server
  hgt           \* one call of a JSON-RPC method that takes a height

identVars == <<inbound, channel, id>>
cbVars == <<cbPacket, cbError, cbClose>>
closeVars == <<closed, connCloseN, chanCloseN, closeInfoN>>
peerVars == <<identVars, cbVars, closeVars, once>>
localVars == <<clCb, cur, tgt, rcb, rkind, authRound, reads, extCloses>>
timeVars == <<sweepDue>>
callVars == <<spkt, sends, sret, cnt>>
queueVars == <<q, srPkt, wire, nextSeq, inv>>
directVars == <<sendMtx, raw, msgs>>
sendVars == <<queueVars, pool, received, timeVars, callVars, directVars>>
thrVars == <<pc, clRet, localVars>>
closeHist == <<closeCbN, closeCbTo, overlayPeers>>
chainHist == <<passed, firstHandler, onPeerCalled, handed, noP2P>>
histVars == <<closeHist, events, chainHist>>
lifeVars == <<peerVars, p2pMap, thrVars, histVars>>

\* the objects beside the connection and its peer
restVars == <<lsn, fld, syn, adr, net, mgr, tok, rpc, hgt>>
notLsn == <<fld, syn, adr, net, mgr, tok, rpc, hgt>>
notFld == <<lsn, syn, adr, net, mgr, tok, rpc, hgt>>
notSyn == <<lsn, fld, adr, net, mgr, tok, rpc, hgt>>
notAdr == <<lsn, fld, syn, net, mgr, tok, rpc, hgt>>
notNet == <<lsn, fld, syn, adr, mgr, tok, rpc, hgt>>
notMgr == <<lsn, fld, syn, adr, net, tok, rpc, hgt>>
notTok == <<lsn, fld, syn, adr, net, mgr, rpc, hgt>>
notRpc == <<lsn, fld, syn, adr, net, mgr, tok, hgt>>
notHgt == <<lsn, fld, syn, adr, net, mgr, tok, rpc>>

vars == <<lifeVars, sendVars, restVars>>

(***************************************************************************)
(* Listener                                                                *)
(***************************************************************************)
\* the goroutines that call Listen and Close
LsnCallers == {"c1", "c2"}

\* newListener: no net.Listener, no channel, nobody holds the mutex
newListener ==
  [ln |-> "nil", closeCh |-> "nil", mtx |-> "none", acc |-> "off",
   accepted |-> 0, calls |-> 0,
   lpc |-> [c \in LsnCallers |-> "idle"],
   ret |-> [c \in LsnCallers |-> "none"]]

\* a goroutine takes up a call of Listen or of Close
ListenerCall(c, op) ==
  /\ lsn.lpc[c] = "idle"
  /\ lsn.calls < MaxLsnCalls
  /\ lsn' = [lsn EXCEPT !.calls = @ + 1, !.lpc[c] = op, !.ret[c] = "none"]
  /\ UNCHANGED <<lifeVars, sendVars, notLsn>>

\* l.mtx.Lock() of Listen and of Close
ListenerLock(c) ==
  /\ lsn.lpc[c] \in {"Listen", "Close"}
  /\ lsn.mtx = "none"
  /\ lsn' = [lsn EXCEPT !.mtx = c,
                        !.lpc[c] = IF @ = "Listen" THEN "listen" ELSE "close"]
  /\ UNCHANGED <<lifeVars, sendVars, notLsn>>

\* Listen under the mutex: ErrAlreadyListened when l.ln is set; else
\* net.Listen, whose error is returned, or l.ln, l.closeCh and the accept
\* routine
ListenerListen(c) ==
  /\ lsn.lpc[c] = "listen"
  /\ IF lsn.ln # "nil"
     THEN lsn' = [lsn EXCEPT !.ret[c] = "ErrAlreadyListened", !.lpc[c] = "unlock"]
     ELSE \/ lsn' = [lsn EXCEPT !.ret[c] = "err", !.lpc[c] = "unlock"]
          \/ lsn' = [lsn EXCEPT !.ln = "open", !.closeCh = "open",
                                !.acc = "accept",
                                !.ret[c] = "nil", !.lpc[c] = "unlock"]
  /\ UNCHANGED <<lifeVars, sendVars, notLsn>>

\* Close under the mutex: `if l.ln != nil { return ErrAlreadyClosed }`, and
\* past it l.ln is nil and l.ln.Close() is a call on a nil interface, a
\* panic that nothing recovers
ListenerClose(c) ==
  /\ lsn.lpc[c] = "close"
  /\ IF lsn.ln # "nil"
     THEN lsn' = [lsn EXCEPT !.ret[c] = "ErrAlreadyClosed", !.lpc[c] = "unlock"]
     ELSE lsn' = [lsn EXCEPT !.ret[c] = "panic",
                             !.lpc = [d \in LsnCallers |-> "crashed"],
                             !.acc = "crashed"]
  /\ UNCHANGED <<lifeVars, sendVars, notLsn>>

\* the deferred l.mtx.Unlock() and the return
ListenerUnlock(c) ==
  /\ lsn.lpc[c] = "unlock"
  /\ lsn' = [lsn EXCEPT !.mtx = "none", !.lpc[c] = "idle"]
  /\ UNCHANGED <<lifeVars, sendVars, notLsn>>

\* acceptRoutine: conn, err := l.ln.Accept(); l.onAccept(conn)
ListenerAccept ==
  /\ lsn.acc = "accept"
  /\ lsn.ln = "open"
  /\ lsn.accepted < MaxAccepts
  /\ lsn' = [lsn EXCEPT !.accepted = @ + 1]
  /\ UNCHANGED <<lifeVars, sendVars, notLsn>>

\* acceptRoutine: Accept returns an error, the routine returns and its
\* deferred close(l.closeCh) runs
ListenerAcceptError ==
  /\ lsn.acc = "accept"
  /\ lsn' = [lsn EXCEPT !.acc = "done", !.closeCh = "closed"]
  /\ UNCHANGED <<lifeVars, sendVars, notLsn>>

(***************************************************************************)
(* The properties of the Peer and their accessors                          *)
(***************************************************************************)
\* the goroutines that call the accessors
FieldCallers == {"g1", "g2"}

Fields == {"id", "netAddress", "channel", "connType", "role"}
FieldValues == {"zero", "v"}

\* each accessor: the lock it takes, exclusively (Lock) or shared (RLock),
\* the field it touches, and whether it writes it
Accessor(op) ==
  CASE op = "setID" ->
         [mtx |-> "idMtx", excl |-> TRUE, field |-> "id", write |-> TRUE]
    [] op = "ID" ->
         [mtx |-> "netAddressMtx", excl |-> TRUE, field |-> "id", write |-> FALSE]
    [] op = "setNetAddress" ->
         [mtx |-> "netAddressMtx", excl |-> TRUE, field |-> "netAddress", write |-> TRUE]
    [] op = "NetAddress" ->
         [mtx |-> "netAddressMtx", excl |-> FALSE, field |-> "netAddress", write |-> FALSE]
    [] op = "setChannel" ->
         [mtx |-> "channelMtx", excl |-> TRUE, field |-> "channel", write |-> TRUE]
    [] op = "Channel" ->
         [mtx |-> "channelMtx", excl |-> FALSE, field |-> "channel", write |-> FALSE]
    [] op = "setConnType" ->
         [mtx |-> "connTypeMtx", excl |-> TRUE, field |-> "connType", write |-> TRUE]
    [] op = "ConnType" ->
         [mtx |-> "connTypeMtx", excl |-> FALSE, field |-> "connType", write |-> FALSE]
    [] op = "setRole" ->
         [mtx |-> "roleMtx", excl |-> TRUE, field |-> "role", write |-> TRUE]
    [] op = "Role" ->
         [mtx |-> "roleMtx", excl |-> FALSE, field |-> "role", write |-> FALSE]

FieldOps == {"setID", "ID", "setNetAddress", "NetAddress", "setChannel",
             "Channel", "setConnType", "ConnType", "setRole", "Role"}
FieldMutexes == {"idMtx", "netAddressMtx", "channelMtx", "connTypeMtx", "roleMtx"}

\* a new Peer: every property zero, every lock free
newFields ==
  [val |-> [f \in Fields |-> "zero"],
   wr |-> [m \in FieldMutexes |-> "none"],
   rd |-> [m \in FieldMutexes |-> {}],
   fpc |-> [g \in FieldCallers |-> "idle"],
   op |-> [g \in FieldCallers |-> "none"],
   arg |-> [g \in FieldCallers |-> "zero"],
   got |-> [g \in FieldCallers |-> "none"],
   calls |-> 0]

\* g is between its Lock and its Unlock and touches field f / writes it
Touches(g, f) == fld.fpc[g] = "access" /\ Accessor(fld.op[g]).field = f
Writes(g, f) == Touches(g, f) /\ Accessor(fld.op[g]).write

\* a goroutine takes up a call of an accessor
FieldCall(g, op, v) ==
  /\ fld.fpc[g] = "idle"
  /\ fld.calls < MaxFieldCalls
  /\ fld' = [fld EXCEPT !.calls = @ + 1, !.fpc[g] = "lock", !.op[g] = op,
                        !.arg[g] = v, !.got[g] = "none"]
  /\ UNCHANGED <<lifeVars, sendVars, notFld>>

\* Lock() waits for the writer and the readers to leave, RLock() for the
\* writer
FieldLock(g) ==
  /\ fld.fpc[g] = "lock"
  /\ LET a == Accessor(fld.op[g])
     IN /\ fld.wr[a.mtx] = "none"
        /\ IF a.excl
           THEN /\ fld.rd[a.mtx] = {}
                /\ fld' = [fld EXCEPT !.wr[a.mtx] = g, !.fpc[g] = "access"]
           ELSE fld' = [fld EXCEPT !.rd[a.mtx] = @ \cup {g}, !.fpc[g] = "access"]
  /\ UNCHANGED <<lifeVars, sendVars, notFld>>

\* the assignment or the read of the field; a read that runs while another
\* goroutine writes the field is a data race and may return anything
FieldAccess(g) ==
  /\ fld.fpc[g] = "access"
  /\ LET a == Accessor(fld.op[g])
     IN IF a.write
        THEN fld' = [fld EXCEPT !.val[a.field] = fld.arg[g], !.fpc[g] = "unlock"]
        ELSE \E v \in (IF \E h \in FieldCallers \ {g} : Writes(h, a.field)
                       THEN FieldValues ELSE {fld.val[a.field]}) :
               fld' = [fld EXCEPT !.got[g] = v, !.fpc[g] = "unlock"]
  /\ UNCHANGED <<lifeVars, sendVars, notFld>>

\* the deferred Unlock() / RUnlock()
FieldUnlock(g) ==
  /\ fld.fpc[g] = "unlock"
  /\ LET a == Accessor(fld.op[g])
     IN IF a.excl
        THEN fld' = [fld EXCEPT !.wr[a.mtx] = "none", !.fpc[g] = "idle"]
        ELSE fld' = [fld EXCEPT !.rd[a.mtx] = @ \ {g}, !.fpc[g] = "idle"]
  /\ UNCHANGED <<lifeVars, sendVars, notFld>>

(***************************************************************************)
(* State sync: the client, its timers, and the syncer that calls it        *)
(***************************************************************************)
SyncPeers == {"p1", "p2"}
RequestKinds == {"hasNode", "requestNodeData"}

\* configExpiredTime, in milliseconds
configExpiredTime == 300

\* the clock moves in steps of half the expiry time
TickMs == configExpiredTime \div 2

\* the protocol of a request and the protocol of its reply
RequestProto(kind) ==
  IF kind = "hasNode" THEN "protoHasNode" ELSE "protoRequestNodeData"

\* variant: every timeout names protoResult
ReplyProto_Result(kind) == "protoResult"

\* the protocol the timer callback of a request passes to expired
ReplyProto(kind) ==
  IF kind = "hasNode" THEN "protoResult" ELSE "protoNodeData"

\* OnJoin: every peer starts with reqID 0 and no timer; nothing sent
newSync ==
  [reqID |-> [p \in SyncPeers |-> 0],
   ptimer |-> [p \in SyncPeers |-> 0],
   timers |-> <<>>,
   sent |-> <<>>,
   tried |-> <<>>,
   expired |-> <<>>,
   busy |-> [p \in SyncPeers |-> FALSE],
   now |-> 0, calls |-> 0, ret |-> "none"]

\* time.AfterFunc(d, f): a new timer, armed, that runs f when d has passed
AfterFunc(s, d, p, proto, req) ==
  Append(s.timers, [peer |-> p, proto |-> proto, due |-> s.now + d,
                    state |-> "armed", req |-> req])

\* variant: the request id is taken before Unicast is tried
ClientRequest_CountsFailures(s, p, kind, ok) ==
  LET reqID == s.reqID[p] + 1
  IN IF ~ok
     THEN [s EXCEPT !.reqID[p] = reqID, !.ret = "err", !.calls = @ + 1,
                    !.tried = Append(@, [to |-> p, reqID |-> reqID, ok |-> FALSE])]
     ELSE [s EXCEPT !.sent = Append(@, [proto |-> RequestProto(kind),
                                         reqID |-> reqID, to |-> p]),
                    !.reqID[p] = reqID,
                    !.timers = AfterFunc(s, configExpiredTime, p,
                                         ReplyProto(kind), reqID),
                    !.ptimer[p] = Len(s.timers) + 1,
                    !.ret = "nil", !.calls = @ + 1,
                    !.tried = Append(@, [to |-> p, reqID |-> reqID, ok |-> TRUE])]

\* client.hasNode / client.requestNodeData: the message carries p.reqID + 1
\* (tried keeps every message given to Unicast, sent those it took);
\* when Unicast fails the error is returned; otherwise p.reqID takes the new
\* value and p.timer a new timer (the timer p.timer held is not stopped)
ClientRequest(s, p, kind, ok) ==
  LET reqID == s.reqID[p] + 1
  IN IF ~ok
     THEN [s EXCEPT !.ret = "err", !.calls = @ + 1,
                    !.tried = Append(@, [to |-> p, reqID |-> reqID, ok |-> FALSE])]
     ELSE [s EXCEPT !.sent = Append(@, [proto |-> RequestProto(kind),
                                         reqID |-> reqID, to |-> p]),
                    !.reqID[p] = reqID,
                    !.timers = AfterFunc(s, configExpiredTime, p,
                                         ReplyProto(kind), reqID),
                    !.ptimer[p] = Len(s.timers) + 1,
                    !.ret = "nil", !.calls = @ + 1,
                    !.tried = Append(@, [to |-> p, reqID |-> reqID, ok |-> TRUE])]

\* timer.Stop(): an armed timer is stopped; one whose function has been
\* started is left alone
TimerStop(s, i) ==
  IF i > 0 /\ s.timers[i].state = "armed"
  THEN [s EXCEPT !.timers[i].state = "stopped"]
  ELSE s

\* the syncer sends a request to a peer that has none in flight
SyncerRequest(p, kind, ok) ==
  /\ syn.calls < MaxRequests
  /\ ~syn.busy[p]
  /\ syn' = [ClientRequest(syn, p, kind, ok) EXCEPT !.busy[p] = ok]
  /\ UNCHANGED <<lifeVars, sendVars, notSyn>>

\* the reply to the request in flight: the syncer cancels the timer of the
\* peer, takes the result, and the peer is ready again
SyncerReply(p) ==
  /\ syn.busy[p]
  /\ syn' = [TimerStop(syn, syn.ptimer[p]) EXCEPT !.busy[p] = FALSE]
  /\ UNCHANGED <<lifeVars, sendVars, notSyn>>

\* the runtime starts the function of a timer whose time has come
TimerFire(i) ==
  /\ i \in DOMAIN syn.timers
  /\ syn.timers[i].state = "armed"
  /\ syn.now >= syn.timers[i].due
  /\ syn' = [syn EXCEPT !.timers[i].state = "running"]
  /\ UNCHANGED <<lifeVars, sendVars, notSyn>>

\* the function of the timer: expired(receiveTimeExpired, proto, nil, p).
\* The event has no bytes; the request id it leads to is the one p holds when
\* the function runs.  The syncer takes the request in flight for timed out.
TimerCallback(i) ==
  /\ i \in DOMAIN syn.timers
  /\ syn.timers[i].state = "running"
  /\ LET t == syn.timers[i]
     IN syn' = [syn EXCEPT !.timers[i].state = "done",
                           !.expired = Append(@, [msgType |-> "receiveTimeExpired",
                                                  proto |-> t.proto,
                                                  b |-> "nil",
                                                  peer |-> t.peer,
                                                  reqID |-> syn.reqID[t.peer],
                                                  timer |-> i]),
                           !.busy[t.peer] = FALSE]
  /\ UNCHANGED <<lifeVars, sendVars, notSyn>>

\* time passes; a timer that is due is started before it passes further
SyncTick ==
  /\ syn.now < MaxTicks * TickMs
  /\ \A i \in DOMAIN syn.timers :
       syn.timers[i].state = "armed" => syn.now < syn.timers[i].due
  /\ syn' = [syn EXCEPT !.now = @ + TickMs]
  /\ UNCHANGED <<lifeVars, sendVars, notSyn>>

(***************************************************************************)
(* NetAddress                                                              *)
(***************************************************************************)
\* an address is the sequence of its characters
Digits == {"0", "1", "2", "3", "4", "5", "6", "7", "8", "9"}

DigitVal(c) ==
  CASE c = "0" -> 0 [] c = "1" -> 1 [] c = "2" -> 2 [] c = "3" -> 3
    [] c = "4" -> 4 [] c = "5" -> 5 [] c = "6" -> 6 [] c = "7" -> 7
    [] c = "8" -> 8 [] c = "9" -> 9

\* the first and the last position of character c in s, 0 when there is none
IndexByte(s, c) ==
  IF \E i \in DOMAIN s : s[i] = c
  THEN CHOOSE i \in DOMAIN s : s[i] = c /\ \A j \in 1..(i - 1) : s[j] # c
  ELSE 0

LastIndexByte(s, c) ==
  IF \E i \in DOMAIN s : s[i] = c
  THEN CHOOSE i \in DOMAIN s : s[i] = c /\ \A j \in (i + 1)..Len(s) : s[j] # c
  ELSE 0

\* net.SplitHostPort: the port starts after the last colon; a host in
\* brackets ends just before that colon; no other colon or bracket
SplitHostPort(a) ==
  LET i == LastIndexByte(a, ":")
      end == IndexByte(a, "]")
      bad(e) == [host |-> <<>>, port |-> <<>>, err |-> e]
      rest(k) == SubSeq(a, k, Len(a))
      port == rest(i + 1)
  IN IF i = 0 THEN bad("missing port in address")
     ELSE IF a[1] = "["
     THEN IF end = 0 THEN bad("missing ']' in address")
          ELSE IF end = Len(a) THEN bad("missing port in address")
          ELSE IF end # i - 1
          THEN IF a[end + 1] = ":" THEN bad("too many colons in address")
               ELSE bad("missing port in address")
          ELSE IF IndexByte(rest(2), "[") > 0 THEN bad("unexpected '[' in address")
          ELSE IF IndexByte(rest(end + 1), "]") > 0 THEN bad("unexpected ']' in address")
          ELSE [host |-> SubSeq(a, 2, end - 1), port |-> port, err |-> "nil"]
     ELSE IF IndexByte(SubSeq(a, 1, i - 1), ":") > 0 THEN bad("too many colons in address")
          ELSE IF IndexByte(a, "[") > 0 THEN bad("unexpected '[' in address")
          ELSE IF IndexByte(a, "]") > 0 THEN bad("unexpected ']' in address")
          ELSE [host |-> SubSeq(a, 1, i - 1), port |-> port, err |-> "nil"]

\* strconv.ParseUint(s, 10, 64): the value, or -1 for a syntax error (the
\* ports here have few digits, far from the range error of 64 bits)
RECURSIVE ParseUint(_, _)
ParseUint(s, n) ==
  IF s = <<>> THEN n
  ELSE IF s[1] \notin Digits THEN -1
  ELSE ParseUint(Tail(s), n * 10 + DigitVal(s[1]))

\* strconv.ParseInt(s, 10, 64): an optional sign, then at least one digit
ParseInt(s) ==
  LET neg == s # <<>> /\ s[1] = "-"
      d == IF s # <<>> /\ s[1] \in {"+", "-"} THEN Tail(s) ELSE s
      un == IF d = <<>> THEN -1 ELSE ParseUint(d, 0)
  IN IF un = -1 THEN [val |-> 0, err |-> "invalid syntax"]
     ELSE [val |-> IF neg THEN 0 - un ELSE un, err |-> "nil"]

\* variant: port 0 passes
Validate_FromZero(a) ==
  LET sp == SplitHostPort(a)
      i == ParseInt(sp.port)
  IN IF sp.err # "nil" THEN sp.err
     ELSE IF i.err # "nil" THEN i.err
     ELSE IF i.val < 0 \/ i.val > 65535 THEN "invalid port"
     ELSE "nil"

\* NetAddress.Validate
Validate(a) ==
  LET sp == SplitHostPort(a)
      i == ParseInt(sp.port)
  IN IF sp.err # "nil" THEN sp.err
     ELSE IF i.err # "nil" THEN i.err
     ELSE IF i.val < 1 \/ i.val > 65535 THEN "invalid port"
     ELSE "nil"

\* no address has been validated
newAddress == [a |-> <<>>, st |-> "none", err |-> "none"]

\* a call of Validate on the address
ValidateCall ==
  /\ adr.st = "new"
  /\ adr' = [adr EXCEPT !.st = "done", !.err = Validate(adr.a)]
  /\ UNCHANGED <<lifeVars, sendVars, notAdr>>

(***************************************************************************)
(* Several nodes: each has a Peer for each neighbour; one packet is        *)
(* broadcast and forwarded                                                 *)
(***************************************************************************)
Nodes == {"A", "B", "C", "D"}
Pairs == {pr \in Nodes \X Nodes : pr[1] # pr[2]}

\* the nodes that can be reached from the nodes in set over the links
RECURSIVE Reach(_, _)
Reach(set, links) ==
  LET more == set \cup {m \in Nodes : \E n \in set : {n, m} \in links}
  IN IF more = set THEN set ELSE Reach(more, links)

\* the overlays in which every node can be reached from every other
Topologies ==
  {links \in SUBSET {{n, m} : n, m \in Nodes} :
     /\ \A l \in links : Cardinality(l) = 2
     /\ \A n \in Nodes : Reach({n}, links) = Nodes}

\* no links, nothing sent
noNet ==
  [links |-> {}, origin |-> "none", started |-> FALSE,
   npool |-> [pr \in Pairs |-> FALSE],
   nq |-> [pr \in Pairs |-> 0],
   nwire |-> [pr \in Pairs |-> 0],
   up |-> [n \in Nodes |-> 0]]

\* isDuplicatedToSend of the Peer for the node pid, whose pool holds the hash
\* of the packet or not
DuplicatedFor(pid, inPool, pkt) ==
  IF pid = pkt.src
  THEN TRUE
  ELSE IF ~pkt.force
       THEN IF pkt.sender # "nil" /\ pid = pkt.sender
            THEN TRUE
            ELSE inPool
       ELSE FALSE

\* the overlay of node n gives the packet to Peer.send of every neighbour:
\* the queues after the calls
SendToNeighbors(s, n, pkt) ==
  [pr \in Pairs |->
     IF /\ pr[1] = n /\ {n, pr[2]} \in s.links
        /\ ~DuplicatedFor(pr[2], s.npool[pr], pkt)
     THEN s.nq[pr] + 1 ELSE s.nq[pr]]

\* Broadcast(AllNeighbor) at the origin; ttl 0, no limit
NetBroadcast ==
  /\ ~net.started
  /\ net' = [net EXCEPT !.started = TRUE,
                        !.nq = SendToNeighbors(net, net.origin,
                                 [src |-> net.origin, sender |-> "nil",
                                  force |-> FALSE])]
  /\ UNCHANGED <<lifeVars, sendVars, notNet>>

\* the send routine of n's Peer for m pops the packet, writes it and puts
\* its hash into the pool
NetSendRoutine(n, m) ==
  /\ net.nq[<<n, m>>] > 0
  /\ net' = [net EXCEPT !.nq[<<n, m>>] = @ - 1,
                        !.nwire[<<n, m>>] = @ + 1,
                        !.npool[<<n, m>>] = TRUE]
  /\ UNCHANGED <<lifeVars, sendVars, notNet>>

\* the receive routine of m's Peer for n reads the packet, stamps the
\* sender, puts the hash into the pool and calls the overlay, which calls the
\* reactor and broadcasts the packet again
NetReceive(n, m) ==
  /\ net.nwire[<<n, m>>] > 0
  /\ LET got == [net EXCEPT !.nwire[<<n, m>>] = @ - 1,
                            !.npool[<<m, n>>] = TRUE,
                            !.up[m] = @ + 1]
     IN net' = [got EXCEPT !.nq = SendToNeighbors(got, m,
                                    [src |-> net.origin, sender |-> n,
                                     force |-> FALSE])]
  /\ UNCHANGED <<lifeVars, sendVars, notNet>>

(***************************************************************************)
(* State sync: the Manager, its peer pool and its syncer                   *)
(***************************************************************************)
MgrPeers == {"x", "y"}
MgrThreads == {"t1", "t2"}
Protos == {"protoHasNode", "protoResult", "protoRequestNodeData",
           "protoNodeData", "other"}

\* the calls a goroutine can make on the Manager
MgrOps ==
  [name : {"OnReceive"}, pi : Protos, id : MgrPeers, v : {FALSE}]
    \cup [name : {"OnJoin", "OnLeave"}, pi : {"none"}, id : MgrPeers, v : {FALSE}]
    \cup [name : {"cb"}, pi : {"none"}, id : {"none"}, v : BOOLEAN]

NoOp == [name |-> "none", pi |-> "none", id |-> "none", v |-> FALSE]
NoOut == [to |-> "none", what |-> "none", id |-> "none", inPool |-> FALSE]

\* NewSyncManager: an empty pool (a peer id maps to the reqID of its peer,
\* -1 when it has none), not syncing, no syncer
newManager ==
  [pool |-> [pid \in MgrPeers |-> -1],
   syncing |-> FALSE, syncer |-> 0, made |-> 0,
   mutex |-> "none",
   mpc |-> [t \in MgrThreads |-> "idle"],
   op |-> [t \in MgrThreads |-> NoOp],
   out |-> [t \in MgrThreads |-> NoOut],
   ret |-> [t \in MgrThreads |-> "none"],
   calls |-> 0]

\* a call of a method of m.syncer from goroutine t with m.mutex held: a nil
\* syncer is a nil pointer dereference, whose panic runs the deferred Unlock
\* and ends the process; a syncer that calls its completion callback at once
\* makes t lock m.mutex again
CallSyncer(m, t, what, pid, sync) ==
  IF m.syncer = 0
  THEN [m EXCEPT !.mpc = [u \in MgrThreads |-> "crashed"], !.mutex = "none"]
  ELSE [m EXCEPT !.out[t] = [to |-> "syncer", what |-> what, id |-> pid,
                             inPool |-> m.pool[pid] # -1],
                 !.mpc[t] = IF sync THEN "cbLock" ELSE "unlock"]

\* variant: requests reach the server only while syncing
OnReceiveBody_ServerWhileSyncing(m, t, sync) ==
  LET o == m.op[t]
  IN IF m.pool[o.id] = -1
     THEN [m EXCEPT !.mpc[t] = "unlock"]
     ELSE IF o.pi \in {"protoHasNode", "protoRequestNodeData"} /\ m.syncing
     THEN [m EXCEPT !.out[t] = [to |-> "server", what |-> o.pi, id |-> o.id,
                                inPool |-> TRUE],
                    !.mpc[t] = "unlock"]
     ELSE IF o.pi \in {"protoResult", "protoNodeData"} /\ m.syncing
     THEN CallSyncer(m, t, o.pi, o.id, sync)
     ELSE [m EXCEPT !.mpc[t] = "unlock"]

\* Manager.OnReceive between Lock and the deferred Unlock
OnReceiveBody(m, t, sync) ==
  LET o == m.op[t]
  IN IF m.pool[o.id] = -1
     THEN [m EXCEPT !.mpc[t] = "unlock"]
     ELSE IF o.pi \in {"protoHasNode", "protoRequestNodeData"}
     THEN [m EXCEPT !.out[t] = [to |-> "server", what |-> o.pi, id |-> o.id,
                                inPool |-> TRUE],
                    !.mpc[t] = "unlock"]
     ELSE IF o.pi \in {"protoResult", "protoNodeData"} /\ m.syncing
     THEN CallSyncer(m, t, o.pi, o.id, sync)
     ELSE [m EXCEPT !.mpc[t] = "unlock"]

\* Manager.OnJoin: a new peer with reqID 0 is pushed; while syncing the
\* syncer is told
OnJoinBody(m, t, sync) ==
  LET o == m.op[t]
      pushed == [m EXCEPT !.pool[o.id] = 0]
  IN IF m.syncing
     THEN CallSyncer(pushed, t, "onJoin", o.id, sync)
     ELSE [pushed EXCEPT !.mpc[t] = "unlock"]

\* variant: the peer is removed before the syncer is told
OnLeaveBody_RemoveFirst(m, t, sync) ==
  LET o == m.op[t]
      removed == [m EXCEPT !.pool[o.id] = -1]
  IN IF m.pool[o.id] = -1
     THEN [m EXCEPT !.mpc[t] = "unlock"]
     ELSE IF m.syncing
     THEN CallSyncer(removed, t, "onLeave", o.id, sync)
     ELSE [removed EXCEPT !.mpc[t] = "unlock"]

\* Manager.OnLeave: nothing for a peer that is not in the pool; while
\* syncing the syncer is told, then the peer is removed (the removal comes
\* after the call of the syncer, so it needs that call to return)
OnLeaveBody(m, t, sync) ==
  LET o == m.op[t]
      told == CallSyncer(m, t, "onLeave", o.id, sync)
  IN IF m.pool[o.id] = -1
     THEN [m EXCEPT !.mpc[t] = "unlock"]
     ELSE IF m.syncing
     THEN IF told.mpc[t] = "unlock"
          THEN [told EXCEPT !.pool[o.id] = -1]
          ELSE told
     ELSE [m EXCEPT !.pool[o.id] = -1, !.mpc[t] = "unlock"]

\* the completion callback NewSyncer gives to the syncer, between Lock and
\* Unlock
CallbackBody(m, t) ==
  [m EXCEPT !.syncing = m.op[t].v,
            !.syncer = IF m.op[t].v = FALSE THEN 0 ELSE @,
            !.mpc[t] = "unlock"]

\* Manager.NewSyncer: m.syncer is assigned without the mutex
MgrNewSyncer ==
  /\ mgr.made < MaxSyncers
  /\ \A t \in MgrThreads : mgr.mpc[t] # "crashed"
  /\ mgr' = [mgr EXCEPT !.made = @ + 1, !.syncer = mgr.made + 1]
  /\ UNCHANGED <<lifeVars, sendVars, notMgr>>

\* a goroutine takes up a call; the callback exists once a syncer was made
MgrCall(t, o) ==
  /\ mgr.mpc[t] = "idle"
  /\ mgr.calls < MaxMgrCalls
  /\ o.name = "cb" => mgr.made > 0
  /\ mgr' = [mgr EXCEPT !.calls = @ + 1, !.mpc[t] = "lock", !.op[t] = o,
                        !.out[t] = NoOut, !.ret[t] = "none"]
  /\ UNCHANGED <<lifeVars, sendVars, notMgr>>

\* m.mutex.Lock(), at the start of a call or in the callback that the syncer
\* runs inside a call
MgrLock(t) ==
  /\ mgr.mpc[t] \in {"lock", "cbLock"}
  /\ mgr.mutex = "none"
  /\ mgr' = [mgr EXCEPT !.mutex = t, !.mpc[t] = "body"]
  /\ UNCHANGED <<lifeVars, sendVars, notMgr>>

\* the call with the mutex held
MgrBody(t, sync) ==
  /\ mgr.mpc[t] = "body"
  /\ mgr' = CASE mgr.op[t].name = "OnReceive" -> OnReceiveBody(mgr, t, sync)
              [] mgr.op[t].name = "OnJoin" -> OnJoinBody(mgr, t, sync)
              [] mgr.op[t].name = "OnLeave" -> OnLeaveBody(mgr, t, sync)
              [] OTHER -> CallbackBody(mgr, t)
  /\ UNCHANGED <<lifeVars, sendVars, notMgr>>

\* m.mutex.Unlock() and the return; OnReceive returns (false, nil)
MgrUnlock(t) ==
  /\ mgr.mpc[t] = "unlock"
  /\ mgr' = [mgr EXCEPT !.mutex = "none", !.mpc[t] = "idle",
                        !.ret[t] = IF mgr.op[t].name = "OnReceive"
                                   THEN "false, nil" ELSE "returned"]
  /\ UNCHANGED <<lifeVars, sendVars, notMgr>>

(***************************************************************************)
(* SampleToken                                                             *)
(***************************************************************************)
TokenAddrs == {"owner", "user", "score"}

\* Address.isContract
isContract(a) == a = "score"

\* the token before its deployment
newToken ==
  [st |-> "none", totalSupply |-> 0,
   balances |-> [a \in TokenAddrs |-> 0],
   transfers |-> 0, last |-> "none"]

\* SampleToken.pow
RECURSIVE pow(_, _)
pow(base, exponent) ==
  IF exponent <= 0 THEN 1 ELSE base * pow(base, exponent - 1)

\* sum of the balances of the addresses in s
RECURSIVE SumOf(_, _)
SumOf(b, s) ==
  IF s = {} THEN 0
  ELSE LET a == CHOOSE x \in s : TRUE IN b[a] + SumOf(b, s \ {a})

\* DictDB.getOrDefault(owner, BigInteger.ZERO)
safeGetBalance(b, owner) == b[owner]

\* DictDB.set(owner, amount)
safeSetBalance(b, owner, amount) == [b EXCEPT ![owner] = amount]

\* the constructor: a failed require reverts the deployment
TokenDeploy(decimals, initialSupply) ==
  /\ tok.st = "none"
  /\ IF decimals >= 0 /\ decimals <= 21 /\ initialSupply >= 0
     THEN LET supply == IF initialSupply > 0
                        THEN pow(10, decimals) * initialSupply
                        ELSE 0
          IN tok' = [tok EXCEPT !.st = "live", !.totalSupply = supply,
                                !.balances = safeSetBalance(@, "owner", supply)]
     ELSE tok' = [tok EXCEPT !.st = "reverted"]
  /\ UNCHANGED <<lifeVars, sendVars, notTok>>

\* the balances after the two writes of transfer
Transferred(b, from, to, value) ==
  LET fromBalance == safeGetBalance(b, from)
      toBalance == safeGetBalance(b, to)
  IN safeSetBalance(safeSetBalance(b, from, fromBalance - value),
                    to, toBalance + value)

\* SampleToken.transfer called by from; a failed require, and a tokenFallback
\* of the receiving contract that fails, revert the transaction
TokenTransfer(from, to, value, fallbackOk) ==
  /\ tok.st = "live"
  /\ tok.transfers < MaxTransfers
  /\ IF value >= 0 /\ safeGetBalance(tok.balances, from) >= value
        /\ (isContract(to) => fallbackOk)
     THEN tok' = [tok EXCEPT !.balances = Transferred(@, from, to, value),
                             !.transfers = @ + 1, !.last = "ok"]
     ELSE tok' = [tok EXCEPT !.transfers = @ + 1, !.last = "reverted"]
  /\ UNCHANGED <<lifeVars, sendVars, notTok>>

(***************************************************************************)
(* JSON-RPC: sendTransactionAndWait and waitTransactionResult              *)
(***************************************************************************)
WaitMethods == {"sendTransactionAndWait", "waitTransactionResult"}

\* the default timeout of the chain and the timeout of the request, in ticks
\* of the clock; the greatest timeout of the chain is at least one tick
Timeouts == -1..MaxTimeout

\* what can fail between the checks of the timeouts and the wait
WaitFailures == {"none", "chain", "params", "stopped", "pool", "system"}

\* what the block manager puts on the channel
WaitResults == {"receipt", "pruned", "error"}

\* no call yet
newRpc ==
  [st |-> "idle", method |-> "none", dt |-> 0, ut |-> 0, mt |-> 0,
   timeout |-> 0, maxLimit |-> FALSE, submitted |-> FALSE,
   fc |-> "empty", fcFirst |-> FALSE, tc |-> FALSE, clock |-> 0,
   cancelled |-> FALSE, out |-> "none"]

\* timeout := ut; if timeout > mt { timeout = mt; maxLimit = true }
EffectiveTimeout(ut, mt) ==
  IF ut > mt THEN [timeout |-> mt, maxLimit |-> TRUE]
  ELSE [timeout |-> ut, maxLimit |-> FALSE]

\* the two methods up to the call of waitTransactionResultOnChannel: the
\* error they return, "none" when the transaction is submitted or waited on
WaitChecks(method, dt, ut, fail) ==
  CASE fail = "chain" -> "Server"
    [] fail # "chain" /\ dt <= 0 -> "MethodNotFound"
    [] fail # "chain" /\ dt > 0 /\ ut <= 0 ->
         IF method = "sendTransactionAndWait" THEN "InvalidRequest"
         ELSE "InvalidParams"
    [] OTHER ->
         CASE fail = "params" -> "InvalidParams"
           [] fail = "stopped" -> "Server"
           [] fail = "pool" ->
                IF method = "sendTransactionAndWait" THEN "TxPoolOverflow"
                ELSE "System"
           [] fail = "system" -> "System"
           [] OTHER -> "none"

\* a call of one of the two methods, up to the submission
RpcCall(method, dt, ut, mt, fail) ==
  /\ rpc.st = "idle"
  /\ LET err == WaitChecks(method, dt, ut, fail)
         eff == EffectiveTimeout(ut, mt)
     IN rpc' = [rpc EXCEPT !.method = method, !.dt = dt, !.ut = ut, !.mt = mt,
                           !.st = IF err = "none" THEN "submitted" ELSE "returned",
                           !.submitted = err = "none",
                           !.timeout = IF err = "none" THEN eff.timeout ELSE 0,
                           !.maxLimit = IF err = "none" THEN eff.maxLimit ELSE FALSE,
                           !.out = err]
  /\ UNCHANGED <<lifeVars, sendVars, notRpc>>

\* what waitTransactionResultOnChannel returns for the case c of its
\* select, r being what came on the channel
SelectOutcome(c, r, maxLimit) ==
  CASE c = "fc" -> (CASE r = "error" -> "System"
                      [] r = "pruned" -> "NotFound"
                      [] OTHER -> "result")
    [] c = "tc" -> IF maxLimit THEN "SystemTimeout" ELSE "Timeout"
    [] OTHER -> "nil"

\* the goroutine of the call, waiting in the select, takes case c
Woken(w, c, r) ==
  IF w.st = "blocked"
  THEN [w EXCEPT !.st = "returned", !.out = SelectOutcome(c, r, w.maxLimit)]
  ELSE w

\* tc := time.After(timeout): a timer of no duration is due at once
RpcArm ==
  /\ rpc.st = "submitted"
  /\ rpc' = [rpc EXCEPT !.st = "armed", !.clock = 0, !.tc = rpc.timeout <= 0]
  /\ UNCHANGED <<lifeVars, sendVars, notRpc>>

\* the block manager sends the result on the channel
RpcResult(r) ==
  /\ rpc.st \in {"submitted", "armed", "blocked"}
  /\ rpc.fc = "empty"
  /\ rpc' = Woken([rpc EXCEPT !.fc = r, !.fcFirst = ~rpc.tc], "fc", r)
  /\ UNCHANGED <<lifeVars, sendVars, notRpc>>

\* time passes; the timer sends on its channel when the timeout has elapsed
RpcTick ==
  /\ rpc.st \in {"armed", "blocked"}
  /\ ~rpc.tc
  /\ LET due == rpc.clock + 1 >= rpc.timeout
         ticked == [rpc EXCEPT !.clock = @ + 1, !.tc = due]
     IN rpc' = IF due THEN Woken(ticked, "tc", rpc.fc) ELSE ticked
  /\ UNCHANGED <<lifeVars, sendVars, notRpc>>

\* the client gives up: the context of the request is done
RpcCancel ==
  /\ rpc.st \in {"submitted", "armed", "blocked"}
  /\ ~rpc.cancelled
  /\ rpc' = Woken([rpc EXCEPT !.cancelled = TRUE], "done", rpc.fc)
  /\ UNCHANGED <<lifeVars, sendVars, notRpc>>

\* the cases of the select that can proceed
ReadyCases ==
  (IF rpc.fc # "empty" THEN {"fc"} ELSE {})
    \cup (IF rpc.tc THEN {"tc"} ELSE {})
    \cup (IF rpc.cancelled THEN {"done"} ELSE {})

\* the goroutine reaches the select of waitTransactionResultOnChannel: of
\* the cases that can proceed one is taken, whichever
RpcSelect(c) ==
  /\ rpc.st = "armed"
  /\ c \in ReadyCases
  /\ rpc' = [rpc EXCEPT !.st = "returned",
                        !.out = SelectOutcome(c, rpc.fc, rpc.maxLimit)]
  /\ UNCHANGED <<lifeVars, sendVars, notRpc>>

\* no case can proceed: the goroutine waits in the select
RpcBlock ==
  /\ rpc.st = "armed"
  /\ ReadyCases = {}
  /\ rpc' = [rpc EXCEPT !.st = "blocked"]
  /\ UNCHANGED <<lifeVars, sendVars, notRpc>>

(***************************************************************************)
(* JSON-RPC: the methods that take the height of a block                   *)
(***************************************************************************)
ByHeightMethods ==
  {"getBlockByHeight", "getBlockHeaderByHeight", "getVotesByHeight",
   "getBTPMessages", "getBTPHeader", "getBTPProof", "getBlock"}

Heights == -1..MaxHeight

\* what can fail before the height is looked at
HeightFailures == {"none", "params", "chain", "stopped"}

\* no call yet
newHeightCall ==
  [st |-> "idle", method |-> "none", given |-> FALSE, h |-> 0,
   base |-> 0, last |-> 0, chk |-> "none", asked |-> -1,
   out |-> "none", ret |-> -1]

\* variant: only a negative height is refused
checkBaseHeight_NegativeOnly(base, height) ==
  IF height < 0 THEN "NotFound" ELSE "nil"

\* checkBaseHeight, base being c.GenesisStorage().Height()
checkBaseHeight(base, height) ==
  IF height < 0 THEN "NotFound"
  ELSE IF height < base THEN "NotFound"
  ELSE "nil"

\* a call of one of the methods on a chain whose blocks go up to last and
\* whose genesis storage starts at base; getBlock can come without a height
HeightCall(m, given, h, base, last) ==
  /\ hgt.st = "idle"
  /\ base <= last
  /\ given \/ m = "getBlock"
  /\ hgt' = [hgt EXCEPT !.st = "called", !.method = m, !.given = given,
                        !.h = IF given THEN h ELSE 0,
                        !.base = base, !.last = last]
  /\ UNCHANGED <<lifeVars, sendVars, notHgt>>

\* the parameters do not convert, the chain is not there, or it is stopped
HeightFail(f) ==
  /\ hgt.st = "called"
  /\ f # "none"
  /\ hgt' = [hgt EXCEPT !.st = "returned",
                        !.out = IF f = "params" THEN "InvalidParams" ELSE "Server"]
  /\ UNCHANGED <<lifeVars, sendVars, notHgt>>

\* the check of the height; getBlock without a height does not check
HeightCheck ==
  /\ hgt.st = "called"
  /\ IF hgt.given
     THEN LET err == checkBaseHeight(hgt.base, hgt.h)
          IN hgt' = [hgt EXCEPT !.chk = err,
                                !.st = IF err = "nil" THEN "checked" ELSE "returned",
                                !.out = IF err = "nil" THEN "none" ELSE "NotFound"]
     ELSE hgt' = [hgt EXCEPT !.st = "checked"]
  /\ UNCHANGED <<lifeVars, sendVars, notHgt>>

\* bm.GetBlockByHeight(h), cs.GetVotesByHeight(h) or bm.GetLastBlock(): the
\* block manager has the blocks from 0 to last
HeightAsk ==
  /\ hgt.st = "checked"
  /\ LET want == IF hgt.given THEN hgt.h ELSE hgt.last
         found == want >= 0 /\ want <= hgt.last
     IN hgt' = [hgt EXCEPT !.st = "returned", !.asked = want,
                           !.out = IF found THEN "block" ELSE "NotFound",
                           !.ret = IF found THEN want ELSE -1]
  /\ UNCHANGED <<lifeVars, sendVars, notHgt>>

\* the state of those objects in the specifications that are not about them
RestIdle ==
  /\ lsn = newListener /\ fld = newFields /\ syn = newSync
  /\ adr = newAddress /\ net = noNet
  /\ mgr = newManager
  /\ tok = newToken
  /\ rpc = newRpc
  /\ hgt = newHeightCall


(***************************************************************************)
(* The handler chain: newPeerDispatcher / registPeerHandler / dispatchPeer *)
(***************************************************************************)
\* a PeerDispatcher before any handler is registered
emptyDispatcher ==
  [peerHandlers |-> <<>>, next |-> [h \in Handlers |-> NoHandler]]

\* PushBack(ph); the new element's next is the element before it
registPeerHandler(d, ph) ==
  LET lst == Append(d.peerHandlers, ph)
      n == Len(lst)
  IN [peerHandlers |-> lst,
      next |-> IF n > 1 THEN [d.next EXCEPT ![ph] = lst[n - 1]] ELSE d.next]

RECURSIVE registAll(_, _, _)
registAll(d, hs, i) ==
  IF i > Len(hs) THEN d ELSE registAll(registPeerHandler(d, hs[i]), hs, i + 1)

\* pd registers itself, then the handlers given, in order
newPeerDispatcher(hs) == registAll(registPeerHandler(emptyDispatcher, "pd"), hs, 1)

\* newPeerDispatcher(id, cn, a)
NewTransport == newPeerDispatcher(<<"cn", "a">>)

NextOf(h) == NewTransport.next[h]

\* variant: the front of the list
dispatchEntry_Front == NewTransport.peerHandlers[1]

\* dispatchPeer: elm := pd.peerHandlers.Back()
dispatchEntry == NewTransport.peerHandlers[Len(NewTransport.peerHandlers)]

\* the position of a handler in the chain, counted from the entry; an overlay
\* comes after every handler
RECURSIVE stageFrom(_, _, _)
stageFrom(h, x, i) ==
  IF h = x THEN i
  ELSE IF h = NoHandler \/ i > Cardinality(Handlers) THEN 0
  ELSE stageFrom(NextOf(h), x, i + 1)

StageIdx(x) ==
  IF x \in Overlays THEN Cardinality(Handlers) + 1 ELSE stageFrom(dispatchEntry, x, 1)

SeqSet(s) == {s[i] : i \in 1..Len(s)}

MaxStage(ev) ==
  IF ev = {} THEN 0
  ELSE CHOOSE m \in {StageIdx(e.to) : e \in ev} :
         \A e \in ev : StageIdx(e.to) <= m

\* an event (packet, error, close) handed to a handler or an overlay
Deliver(kind, to) ==
  IF to \in Handlers \cup Overlays
  THEN events \cup {[kind |-> kind, to |-> to, fwd |-> SeqSet(passed),
                     after |-> MaxStage(events)]}
  ELSE events

(***************************************************************************)
(* PeerDispatcher.p2pMap                                                   *)
(***************************************************************************)
\* pd.p2pMap[p2p.channel] = p2p
registPeerToPeer(m, o) == [m EXCEPT ![P2PChannel(o)] = o]

\* variant: any registered overlay, whatever its channel
LookupP2P_Any(m, ch) ==
  IF \E c \in Channels : m[c] # "none"
  THEN m[CHOOSE c \in Channels : m[c] # "none"]
  ELSE "none"
\* p2p, ok := pd.p2pMap[p.channel]
LookupP2P(m, ch) == IF ch \in DOMAIN m THEN m[ch] ELSE "none"

(***************************************************************************)
(* Peer.Close / Peer.CloseByError / Peer._close                            *)
(***************************************************************************)
IsClosed == closed = 1

\* Close(reason) and CloseByError(err): record the reason, then _close
CallClose(t, ret) ==
  /\ closeInfoN' = closeInfoN + 1
  /\ pc' = [pc EXCEPT ![t] = "cl_cas"]
  /\ clRet' = [clRet EXCEPT ![t] = ret]

\* variant: a store without the comparison
CompareAndSwap_NoCompare(t) ==
  /\ closed' = 1
  /\ pc' = [pc EXCEPT ![t] = "cl_conn"]

\* variant: a swap that flips the flag
CompareAndSwap_Toggle(t) ==
  /\ closed' = 1 - closed
  /\ pc' = [pc EXCEPT ![t] = IF closed = 0 THEN "cl_conn" ELSE clRet[t]]
\* atomic.CompareAndSwapInt32(&p.closed, 0, 1)
CompareAndSwap(t) ==
  IF closed = 0
  THEN /\ closed' = 1
       /\ pc' = [pc EXCEPT ![t] = "cl_conn"]
  ELSE /\ closed' = closed
       /\ pc' = [pc EXCEPT ![t] = clRet[t]]

CloseCAS(t) ==
  /\ pc[t] = "cl_cas"
  /\ CompareAndSwap(t)
  /\ UNCHANGED <<identVars, cbVars, connCloseN, chanCloseN, closeInfoN, once>>
  /\ UNCHANGED <<p2pMap, clRet, localVars, histVars, sendVars, restVars>>

\* p.conn.Close()
CloseConn(t) ==
  /\ pc[t] = "cl_conn"
  /\ connCloseN' = connCloseN + 1
  /\ pc' = [pc EXCEPT ![t] = "cl_chan"]
  /\ UNCHANGED <<identVars, cbVars, closed, chanCloseN, closeInfoN, once>>
  /\ UNCHANGED <<p2pMap, clRet, localVars, histVars, sendVars, restVars>>

\* close(p.close)
CloseChan(t) ==
  /\ pc[t] = "cl_chan"
  /\ chanCloseN' = chanCloseN + 1
  /\ pc' = [pc EXCEPT ![t] = "cl_getcb"]
  /\ UNCHANGED <<identVars, cbVars, closed, connCloseN, closeInfoN, once>>
  /\ UNCHANGED <<p2pMap, clRet, localVars, histVars, sendVars, restVars>>

\* cbFunc := p.getCloseCbFunc()
CloseGetCb(t) ==
  /\ pc[t] = "cl_getcb"
  /\ clCb' = [clCb EXCEPT ![t] = cbClose]
  /\ pc' = [pc EXCEPT ![t] = "cl_call"]
  /\ UNCHANGED <<peerVars, p2pMap, clRet, cur, tgt, rcb, rkind, authRound, reads,
                 extCloses, histVars, sendVars, restVars>>

\* cbFunc(p), or defaultOnClose(p) when it is nil; an overlay's onClose
\* drops the peer from its tables
CloseCall(t) ==
  /\ pc[t] = "cl_call"
  /\ closeCbN' = closeCbN + 1
  /\ closeCbTo' = closeCbTo \cup {clCb[t]}
  /\ events' = Deliver("close", clCb[t])
  /\ overlayPeers' = overlayPeers \ {clCb[t]}
  /\ pc' = [pc EXCEPT ![t] = clRet[t]]
  /\ UNCHANGED <<peerVars, p2pMap, clRet, localVars, chainHist, sendVars, restVars>>

(***************************************************************************)
(* Callback rewiring: setPacketCbFunc, nextOnPeer, PeerDispatcher.onPeer   *)
(***************************************************************************)
ChainThreads == {"accept", "recv"}

\* where a goroutine continues when the handler it called returns
Ret(t) == IF t = "accept" THEN "done" ELSE "read"

\* p.once.Do(go receiveRoutine; go sendRoutine), run by setPacketCbFunc when
\* the callback is not nil
StartRoutines(f) ==
  IF once = 0 THEN [f EXCEPT !["recv"] = "read", !["send"] = "select"] ELSE f

\* variant: every call with a callback runs the function
OnceAfter_Every(cb) == IF cb # NoHandler THEN once + 1 ELSE once

OnceAfter(cb) == IF cb # NoHandler /\ once = 0 THEN once + 1 ELSE once

\* PeerDispatcher.onPeer up to its first setter, run by goroutine t
PdOnPeer(t) ==
  LET o == LookupP2P(p2pMap, channel) IN
  IF o # "none"
  THEN /\ cbPacket' = o
       /\ once' = OnceAfter(o)
       /\ tgt' = [tgt EXCEPT ![t] = o]
       /\ pc' = [StartRoutines(pc) EXCEPT ![t] = "pd_err"]
       /\ UNCHANGED <<noP2P, closeInfoN, clRet>>
  ELSE \* pd.onError(err, p, nil) -> peerHandler.onError -> p.Close()
       /\ noP2P' = TRUE
       /\ CallClose(t, Ret(t))
       /\ UNCHANGED <<cbPacket, once, tgt>>

\* ph.onPeer(p) for handler h, called by goroutine t.  The Authenticator and
\* the ChannelNegotiator only send their opening message here.
HandlerOnPeer(t, h) ==
  /\ onPeerCalled' = onPeerCalled \cup {h}
  /\ IF h = "pd"
     THEN PdOnPeer(t)
     ELSE /\ pc' = [pc EXCEPT ![t] = Ret(t)]
          /\ UNCHANGED <<cbPacket, once, tgt, noP2P, closeInfoN, clRet>>
  /\ UNCHANGED <<identVars, cbError, cbClose, closed, connCloseN, chanCloseN>>
  /\ UNCHANGED <<p2pMap, clCb, cur, rcb, rkind, authRound, reads, extCloses>>
  /\ UNCHANGED <<closeHist, events, passed, firstHandler, handed, sendVars, restVars>>

\* nextOnPeer of handler h up to p.setPacketCbFunc(ph.next.onPacket)
BeginNextOnPeer(t, h) ==
  IF NextOf(h) = NoHandler
  THEN /\ pc' = [pc EXCEPT ![t] = Ret(t)]
       /\ UNCHANGED <<cbPacket, once, cur>>
  ELSE /\ cbPacket' = NextOf(h)
       /\ once' = OnceAfter(NextOf(h))
       /\ cur' = [cur EXCEPT ![t] = h]
       /\ pc' = [StartRoutines(pc) EXCEPT ![t] = "nop_err"]

\* p.setErrorCbFunc(ph.next.onError)
NopSetErr(t) ==
  /\ pc[t] = "nop_err"
  /\ cbError' = NextOf(cur[t])
  /\ pc' = [pc EXCEPT ![t] = "nop_close"]
  /\ UNCHANGED <<identVars, cbPacket, cbClose, closeVars, once>>
  /\ UNCHANGED <<p2pMap, clRet, localVars, histVars, sendVars, restVars>>

\* p.setCloseCbFunc(ph.next.onClose): the handler has forwarded the peer
NopSetClose(t) ==
  /\ pc[t] = "nop_close"
  /\ cbClose' = NextOf(cur[t])
  /\ passed' = Append(passed, cur[t])
  /\ pc' = [pc EXCEPT ![t] = "nop_onPeer"]
  /\ UNCHANGED <<identVars, cbPacket, cbError, closeVars, once>>
  /\ UNCHANGED <<p2pMap, clRet, localVars, closeHist, events>>
  /\ UNCHANGED <<firstHandler, onPeerCalled, handed, noP2P, sendVars, restVars>>

\* ph.next.onPeer(p)
NopOnPeer(t) ==
  /\ pc[t] = "nop_onPeer"
  /\ HandlerOnPeer(t, NextOf(cur[t]))

\* PeerDispatcher.onPeer: p.setErrorCbFunc(p2p.onError)
PdSetErr(t) ==
  /\ pc[t] = "pd_err"
  /\ cbError' = tgt[t]
  /\ pc' = [pc EXCEPT ![t] = "pd_close"]
  /\ UNCHANGED <<identVars, cbPacket, cbClose, closeVars, once>>
  /\ UNCHANGED <<p2pMap, clRet, localVars, histVars, sendVars, restVars>>

\* PeerDispatcher.onPeer: p.setCloseCbFunc(p2p.onClose)
PdSetClose(t) ==
  /\ pc[t] = "pd_close"
  /\ cbClose' = tgt[t]
  /\ pc' = [pc EXCEPT ![t] = "pd_onPeer"]
  /\ UNCHANGED <<identVars, cbPacket, cbError, closeVars, once>>
  /\ UNCHANGED <<p2pMap, clRet, localVars, histVars, sendVars, restVars>>

\* PeerDispatcher.onPeer: p2p.onPeer(p); the overlay takes the peer into its tables
PdP2POnPeer(t) ==
  /\ pc[t] = "pd_onPeer"
  /\ handed' = handed \cup {tgt[t]}
  /\ overlayPeers' = overlayPeers \cup {tgt[t]}
  /\ pc' = [pc EXCEPT ![t] = Ret(t)]
  /\ UNCHANGED <<peerVars, p2pMap, clRet, localVars, closeCbN, closeCbTo, events>>
  /\ UNCHANGED <<passed, firstHandler, onPeerCalled, noP2P, sendVars, restVars>>

\* PeerDispatcher.registPeerToPeer
RegistPeerToPeer(o) ==
  /\ pc["accept"] = "init" \/ noP2P
  /\ p2pMap[P2PChannel(o)] = "none"
  /\ p2pMap' = registPeerToPeer(p2pMap, o)
  /\ UNCHANGED <<peerVars, thrVars, histVars, sendVars, restVars>>

(***************************************************************************)
(* PeerDispatcher.onAccept / onConnect / dispatchPeer                      *)
(***************************************************************************)
\* newPeer, then dispatchPeer up to p.setPacketCbFunc(ph.onPacket), which
\* starts the two routines
Accept ==
  /\ pc["accept"] = "init"
  /\ \E dir \in BOOLEAN, ch \in Channels :
       /\ inbound' = dir
       /\ channel' = IF dir THEN "" ELSE ch
  /\ cbPacket' = dispatchEntry
  /\ once' = OnceAfter(dispatchEntry)
  /\ firstHandler' = dispatchEntry
  /\ pc' = [StartRoutines(pc) EXCEPT !["accept"] = "dp_err"]
  /\ UNCHANGED <<id, cbError, cbClose, closeVars>>
  /\ UNCHANGED <<p2pMap, clRet, localVars, closeHist, events>>
  /\ UNCHANGED <<passed, onPeerCalled, handed, noP2P, sendVars, restVars>>

\* dispatchPeer: p.setErrorCbFunc(ph.onError)
DpSetErr ==
  /\ pc["accept"] = "dp_err"
  /\ cbError' = dispatchEntry
  /\ pc' = [pc EXCEPT !["accept"] = "dp_close"]
  /\ UNCHANGED <<identVars, cbPacket, cbClose, closeVars, once>>
  /\ UNCHANGED <<p2pMap, clRet, localVars, histVars, sendVars, restVars>>

\* dispatchPeer: p.setCloseCbFunc(ph.onClose)
DpSetClose ==
  /\ pc["accept"] = "dp_close"
  /\ cbClose' = dispatchEntry
  /\ pc' = [pc EXCEPT !["accept"] = "dp_onPeer"]
  /\ UNCHANGED <<identVars, cbPacket, cbError, closeVars, once>>
  /\ UNCHANGED <<p2pMap, clRet, localVars, histVars, sendVars, restVars>>

\* dispatchPeer: ph.onPeer(p)
DpOnPeer ==
  /\ pc["accept"] = "dp_onPeer"
  /\ HandlerOnPeer("accept", dispatchEntry)

(***************************************************************************)
(* TimestampPool and PriorityQueue                                         *)
(***************************************************************************)
\* The pool maps a hash to the seconds passed since its insertion, -1 for a
\* hash that is not in the pool.
\* TimestampPool.Put: the hash is kept with the time of insertion
PoolPut(pl, h) == [pl EXCEPT ![h] = 0]

\* a second passes; an age beyond the expiry need not be told apart
PoolAge(pl) ==
  [h \in Hashes |-> IF pl[h] >= 0 /\ pl[h] <= PoolExpire THEN pl[h] + 1 ELSE pl[h]]

PoolContains(pl, h) == pl[h] >= 0

\* TimestampPool.RemoveBefore(n): drop what was inserted more than n seconds ago
PoolRemoveBefore(pl, n) ==
  [h \in Hashes |-> IF pl[h] > n THEN -1 ELSE pl[h]]

\* PriorityQueue.Push fails when the level is full
QFull(qq, prio) == Len(qq[prio]) >= QueueSize

QPush(qq, e, prio) == [qq EXCEPT ![prio] = Append(@, e)]

QEmpty(qq) == \A p \in Prios : qq[p] = <<>>

\* PriorityQueue.Pop takes from the most urgent level that is not empty
QTop(qq) == CHOOSE p \in Prios : qq[p] # <<>> /\ \A p2 \in Prios : p2 < p => qq[p2] = <<>>

(***************************************************************************)
(* Peer.receiveRoutine                                                     *)
(***************************************************************************)
\* p.reader.ReadPacket() and what follows up to fetching the callback; hs are
\* the hashes the packets read can carry
RecvRead(hs, errs) ==
  /\ pc["recv"] = "read"
  /\ \/ \* a packet: stamp the sender, pool.Put, getPacketCbFunc
        /\ connCloseN = 0 /\ reads < MaxReads
        /\ \E k \in (IF cbPacket \in Overlays THEN {"ok"} ELSE {"ok", "bad"}) :
             rkind' = k
        /\ \E h \in hs : /\ pool' = PoolPut(pool, h)
                         /\ received' = received \cup {h}
        /\ rcb' = cbPacket
        /\ reads' = reads + 1
        /\ pc' = [pc EXCEPT !["recv"] = "callPkt"]
        /\ UNCHANGED <<closeInfoN, clRet>>
     \/ \* a temporary error: getErrorCbFunc
        /\ connCloseN = 0 /\ reads < MaxReads
        /\ "temporary" \in errs
        /\ rkind' = "none"
        /\ rcb' = cbError
        /\ reads' = reads + 1
        /\ pc' = [pc EXCEPT !["recv"] = "callErr"]
        /\ UNCHANGED <<closeInfoN, clRet, pool, received>>
     \/ \* a permanent error or EOF: p.CloseByError(err); return
        /\ "permanent" \in errs \/ connCloseN > 0
        /\ CallClose("recv", "defer")
        /\ UNCHANGED <<rcb, rkind, reads, pool, received>>
  /\ UNCHANGED <<identVars, cbVars, closed, connCloseN, chanCloseN, once>>
  /\ UNCHANGED <<p2pMap, clCb, cur, tgt, authRound, extCloses, histVars>>
  /\ UNCHANGED <<restVars, directVars, queueVars, timeVars, callVars>>

\* Peer.setID: the id is assigned under idMtx, whatever it was before
setID(v) == id' = v

\* variant: the first round already sets a provisional id
AuthOnPacket_IdPerRound ==
  IF rkind = "bad" \/ authRound >= AuthRounds
  THEN /\ CallClose("recv", "read")
       /\ UNCHANGED <<authRound, id, cbPacket, once, cur>>
  ELSE IF authRound + 1 < AuthRounds
  THEN /\ authRound' = authRound + 1
       /\ setID("unverified")
       /\ pc' = [pc EXCEPT !["recv"] = "read"]
       /\ UNCHANGED <<cbPacket, once, cur, closeInfoN, clRet>>
  ELSE /\ authRound' = authRound + 1
       /\ setID("remote")
       /\ BeginNextOnPeer("recv", "a")
       /\ UNCHANGED <<closeInfoN, clRet>>

\* Authenticator.onPacket: a valid message completes a round, the last round
\* sets the peer's id and forwards the peer; an invalid one closes the peer
AuthOnPacket ==
  IF rkind = "bad" \/ authRound >= AuthRounds
  THEN /\ CallClose("recv", "read")
       /\ UNCHANGED <<authRound, id, cbPacket, once, cur>>
  ELSE IF authRound + 1 < AuthRounds
  THEN /\ authRound' = authRound + 1
       /\ pc' = [pc EXCEPT !["recv"] = "read"]
       /\ UNCHANGED <<id, cbPacket, once, cur, closeInfoN, clRet>>
  ELSE /\ authRound' = authRound + 1
       /\ setID("remote")
       /\ BeginNextOnPeer("recv", "a")
       /\ UNCHANGED <<closeInfoN, clRet>>

\* ChannelNegotiator.onPacket: on agreement the peer's channel is set and the
\* peer is forwarded; a mismatch closes the peer
ChannelOnPacket ==
  IF rkind = "bad"
  THEN /\ CallClose("recv", "read")
       /\ UNCHANGED <<channel, cbPacket, once, cur>>
  ELSE /\ \E c \in Channels : channel' = IF inbound THEN c ELSE channel
       /\ BeginNextOnPeer("recv", "cn")
       /\ UNCHANGED <<closeInfoN, clRet>>

\* cbFunc(pkt, p) with the callback fetched; a nil callback drops the packet
RecvCallPkt ==
  /\ pc["recv"] = "callPkt"
  /\ events' = Deliver("packet", rcb)
  /\ CASE rcb = "a" -> AuthOnPacket /\ UNCHANGED channel
       [] rcb = "cn" -> ChannelOnPacket /\ UNCHANGED <<authRound, id>>
       [] OTHER -> \* PeerDispatcher.onPacket logs; an overlay takes the packet
            /\ pc' = [pc EXCEPT !["recv"] = "read"]
            /\ UNCHANGED <<authRound, id, channel, cbPacket, once, cur,
                           closeInfoN, clRet>>
  /\ UNCHANGED <<inbound, cbError, cbClose, closed, connCloseN, chanCloseN>>
  /\ UNCHANGED <<p2pMap, clCb, tgt, rcb, rkind, reads, extCloses>>
  /\ UNCHANGED <<closeHist, chainHist, sendVars, restVars>>

\* cbFunc(err, p, pkt) with the error callback fetched: defaultOnError closes
\* by error, peerHandler.onError closes, an overlay keeps the peer
RecvCallErr ==
  /\ pc["recv"] = "callErr"
  /\ events' = Deliver("error", rcb)
  /\ IF rcb \in Overlays
     THEN /\ pc' = [pc EXCEPT !["recv"] = "read"]
          /\ UNCHANGED <<closeInfoN, clRet>>
     ELSE CallClose("recv", "read")
  /\ UNCHANGED <<identVars, cbVars, closed, connCloseN, chanCloseN, once>>
  /\ UNCHANGED <<p2pMap, localVars, closeHist, chainHist, sendVars, restVars>>

\* a panic in the receive routine or in a callback it invokes: the deferred
\* function recovers it and calls p.CloseByError; the routine has ended
RecvPanic ==
  /\ pc["recv"] \in {"read", "callPkt", "callErr"}
  /\ CallClose("recv", "done")
  /\ UNCHANGED <<identVars, cbVars, closed, connCloseN, chanCloseN, once>>
  /\ UNCHANGED <<p2pMap, localVars, histVars, sendVars, restVars>>

\* the deferred p.Close("receiveRoutine finish")
RecvDefer ==
  /\ pc["recv"] = "defer"
  /\ CallClose("recv", "done")
  /\ UNCHANGED <<identVars, cbVars, closed, connCloseN, chanCloseN, once>>
  /\ UNCHANGED <<p2pMap, localVars, histVars, sendVars, restVars>>

(***************************************************************************)
(* Peer.isDuplicatedToSend / Peer.send                                     *)
(***************************************************************************)
Packets(srcs, senders, hs) ==
  [src : srcs, sender : senders, force : BOOLEAN, h : hs, prio : Prios]

\* variant: forceSend is not looked at
isDuplicatedToSend_NoForce(pkt) ==
  id = pkt.src \/ (pkt.sender # "nil" /\ id = pkt.sender)
    \/ PoolContains(pool, pkt.h)

\* variant: the sender is not looked at
isDuplicatedToSend_PoolOnly(pkt) ==
  id = pkt.src \/ (~pkt.force /\ PoolContains(pool, pkt.h))

\* pkt.h stands for pkt.hashOfPacket after pkt.updateHash(false)
isDuplicatedToSend(pkt) ==
  IF id = pkt.src
  THEN TRUE
  ELSE IF ~pkt.force
       THEN IF pkt.sender # "nil" /\ id = pkt.sender
            THEN TRUE
            ELSE IF PoolContains(pool, pkt.h) THEN TRUE ELSE FALSE
       ELSE FALSE

\* the Counter of a new context, as sendPacket makes it
NoCount == [peer |-> 0, duplicate |-> 0, overflow |-> 0, enqueue |-> 0]

\* variant: the closed flag is not looked at
SendEnter_NoClosedCheck(t, pkts) ==
  /\ pc[t] = "idle"
  /\ handed # {}
  /\ \E pkt \in pkts :
       /\ pkt.sender = id => pkt.h \in received
       /\ spkt' = [spkt EXCEPT ![t] = pkt]
       /\ pc' = [pc EXCEPT ![t] = "chk"]
       /\ cnt' = [cnt EXCEPT ![t].peer = @ + 1]
       /\ UNCHANGED sret
  /\ UNCHANGED <<peerVars, p2pMap, clRet, localVars, histVars>>
  /\ UNCHANGED <<restVars, directVars, queueVars, pool, received, timeVars>>

\* send up to c.peer++: a closed peer is ErrNotAvailable.  Only a packet read
\* from this peer carries this peer's id as its sender.
SendEnter(t, pkts) ==
  /\ pc[t] = "idle"
  /\ handed # {}
  /\ \E pkt \in pkts :
       /\ pkt.sender = id => pkt.h \in received
       /\ spkt' = [spkt EXCEPT ![t] = pkt]
       /\ IF IsClosed
          THEN /\ sret' = [sret EXCEPT ![t] = "ErrNotAvailable"]
               /\ pc' = [pc EXCEPT ![t] = "ret"]
               /\ UNCHANGED cnt
          ELSE /\ pc' = [pc EXCEPT ![t] = "chk"]
               /\ cnt' = [cnt EXCEPT ![t].peer = @ + 1]
               /\ UNCHANGED sret
  /\ UNCHANGED <<peerVars, p2pMap, clRet, localVars, histVars>>
  /\ UNCHANGED <<restVars, directVars, queueVars, pool, received, timeVars>>

\* one of at most max calls of Peer.send
SendCall(t, pkts, max) ==
  /\ sends < max
  /\ sends' = sends + 1
  /\ SendEnter(t, pkts)

\* variant: a duplicate is returned without being counted
SendCheck_NoCount(t) ==
  /\ pc[t] = "chk"
  /\ IF isDuplicatedToSend(spkt[t])
     THEN /\ sret' = [sret EXCEPT ![t] = "ErrDuplicatedPacket"]
          /\ pc' = [pc EXCEPT ![t] = "ret"]
          /\ UNCHANGED cnt
     ELSE /\ pc' = [pc EXCEPT ![t] = "push"]
          /\ UNCHANGED <<sret, cnt>>
  /\ UNCHANGED <<peerVars, p2pMap, clRet, localVars, histVars>>
  /\ UNCHANGED <<restVars, directVars, queueVars, pool, received, timeVars, spkt, sends>>

\* if p.isDuplicatedToSend(pkt) { c.duplicate++; return ErrDuplicatedPacket }
SendCheck(t) ==
  /\ pc[t] = "chk"
  /\ IF isDuplicatedToSend(spkt[t])
     THEN /\ sret' = [sret EXCEPT ![t] = "ErrDuplicatedPacket"]
          /\ cnt' = [cnt EXCEPT ![t].duplicate = @ + 1]
          /\ pc' = [pc EXCEPT ![t] = "ret"]
     ELSE /\ pc' = [pc EXCEPT ![t] = "push"]
          /\ UNCHANGED <<sret, cnt>>
  /\ UNCHANGED <<peerVars, p2pMap, clRet, localVars, histVars>>
  /\ UNCHANGED <<restVars, directVars, queueVars, pool, received, timeVars, spkt, sends>>

\* the histories (the numbers of the pushes, the packets on the wire, the
\* count of inversions) are complete up to MaxHist entries, which is every
\* entry where the number of Peer.send calls is bounded
MaxHist ==
  CHOOSE n \in {MaxSends, MaxRelays, MaxDrainSends} :
    \A m \in {MaxSends, MaxRelays, MaxDrainSends} : m <= n

NextNum(n) == IF n < MaxHist THEN n + 1 ELSE n

Log(w, c) == IF Len(w) < MaxHist THEN Append(w, c) ELSE Append(Tail(w), c)

\* the context Push stores: the packet, its place in the order of the
\* successful pushes, and whether the pool held its hash at the push
Ctx(t) == [pkt |-> spkt[t], seq |-> NextNum(nextSeq),
           inPool |-> PoolContains(pool, spkt[t].h)]

\* variant: the context goes to the front of its level
SendPush_Front(t) ==
  /\ pc[t] = "push"
  /\ IF QFull(q, spkt[t].prio)
     THEN /\ sret' = [sret EXCEPT ![t] = "ErrQueueOverflow"]
          /\ cnt' = [cnt EXCEPT ![t].overflow = @ + 1]
          /\ UNCHANGED <<q, nextSeq>>
     ELSE /\ q' = [q EXCEPT ![spkt[t].prio] = <<Ctx(t)>> \o @]
          /\ nextSeq' = NextNum(nextSeq)
          /\ cnt' = [cnt EXCEPT ![t].enqueue = @ + 1]
          /\ sret' = [sret EXCEPT ![t] = "nil"]
  /\ pc' = [pc EXCEPT ![t] = "ret"]
  /\ UNCHANGED <<peerVars, p2pMap, clRet, localVars, histVars>>
  /\ UNCHANGED <<restVars, directVars, srPkt, wire, inv, pool, received, timeVars, spkt, sends>>

\* variant: Push fails when any level of the queue is full
SendPush_AnyFull(t) ==
  /\ pc[t] = "push"
  /\ IF \E p \in Prios : QFull(q, p)
     THEN /\ sret' = [sret EXCEPT ![t] = "ErrQueueOverflow"]
          /\ cnt' = [cnt EXCEPT ![t].overflow = @ + 1]
          /\ UNCHANGED <<q, nextSeq>>
     ELSE /\ q' = QPush(q, Ctx(t), spkt[t].prio)
          /\ nextSeq' = NextNum(nextSeq)
          /\ cnt' = [cnt EXCEPT ![t].enqueue = @ + 1]
          /\ sret' = [sret EXCEPT ![t] = "nil"]
  /\ pc' = [pc EXCEPT ![t] = "ret"]
  /\ UNCHANGED <<peerVars, p2pMap, clRet, localVars, histVars>>
  /\ UNCHANGED <<restVars, directVars, srPkt, wire, inv, pool, received, timeVars, spkt, sends>>

\* if ok := p.q.Push(ctx, int(pkt.priority)); !ok { c.overflow++; return
\* ErrQueueOverflow }; c.enqueue++; return nil
SendPush(t) ==
  /\ pc[t] = "push"
  /\ IF QFull(q, spkt[t].prio)
     THEN /\ sret' = [sret EXCEPT ![t] = "ErrQueueOverflow"]
          /\ cnt' = [cnt EXCEPT ![t].overflow = @ + 1]
          /\ UNCHANGED <<q, nextSeq>>
     ELSE /\ q' = QPush(q, Ctx(t), spkt[t].prio)
          /\ nextSeq' = NextNum(nextSeq)
          /\ cnt' = [cnt EXCEPT ![t].enqueue = @ + 1]
          /\ sret' = [sret EXCEPT ![t] = "nil"]
  /\ pc' = [pc EXCEPT ![t] = "ret"]
  /\ UNCHANGED <<peerVars, p2pMap, clRet, localVars, histVars>>
  /\ UNCHANGED <<restVars, directVars, srPkt, wire, inv, pool, received, timeVars, spkt, sends>>

\* the caller has the error (or nil) that send returned
SendReturn(t) ==
  /\ pc[t] = "ret"
  /\ pc' = [pc EXCEPT ![t] = "idle"]
  /\ spkt' = [spkt EXCEPT ![t] = NoPacket]
  /\ sret' = [sret EXCEPT ![t] = "none"]
  /\ cnt' = [cnt EXCEPT ![t] = NoCount]
  /\ UNCHANGED <<peerVars, p2pMap, clRet, localVars, histVars>>
  /\ UNCHANGED <<restVars, directVars, queueVars, pool, received, timeVars, sends>>

\* variant: the send routine waits for the queue only
SRSelect_QueueOnly ==
  /\ pc["send"] = "select"
  /\ ~QEmpty(q) /\ pc' = [pc EXCEPT !["send"] = "pop"] /\ inv' = 0
  /\ UNCHANGED <<peerVars, p2pMap, clRet, localVars, histVars>>
  /\ UNCHANGED <<restVars, directVars, q, srPkt, wire, nextSeq, pool, received, timeVars, callVars>>

(***************************************************************************)
(* Peer.sendRoutine                                                        *)
(***************************************************************************)
\* select: case <-p.close: break Loop; case <-p.q.Wait(): drain
SRSelect ==
  /\ pc["send"] = "select"
  /\ \/ chanCloseN > 0 /\ pc' = [pc EXCEPT !["send"] = "done"] /\ UNCHANGED inv
     \/ ~QEmpty(q) /\ pc' = [pc EXCEPT !["send"] = "pop"] /\ inv' = 0
  /\ UNCHANGED <<peerVars, p2pMap, clRet, localVars, histVars>>
  /\ UNCHANGED <<restVars, directVars, q, srPkt, wire, nextSeq, pool, received, timeVars, callVars>>

\* variant: the sweep drops every hash that is a second old
SRTick_All ==
  /\ pc["send"] = "select"
  /\ sweepDue
  /\ sweepDue' = FALSE
  /\ pool' = PoolRemoveBefore(pool, 0)
  /\ UNCHANGED <<peerVars, p2pMap, thrVars, histVars>>
  /\ UNCHANGED <<restVars, directVars, queueVars, received, callVars>>

\* select: case <-secondTick.C: p.pool.RemoveBefore(DefaultPeerPoolExpireSecond)
SRTick ==
  /\ pc["send"] = "select"
  /\ sweepDue
  /\ sweepDue' = FALSE
  /\ pool' = PoolRemoveBefore(pool, PoolExpire)
  /\ UNCHANGED <<peerVars, p2pMap, thrVars, histVars>>
  /\ UNCHANGED <<restVars, directVars, queueVars, received, callVars>>

\* variant: Pop takes from the least urgent level that is not empty
SRPop_Last ==
  /\ pc["send"] = "pop"
  /\ IF QEmpty(q)
     THEN /\ pc' = [pc EXCEPT !["send"] = "select"]
          /\ UNCHANGED <<q, srPkt>>
     ELSE LET l == CHOOSE p \in Prios :
                     q[p] # <<>> /\ \A r \in Prios : r > p => q[r] = <<>>
          IN /\ srPkt' = Head(q[l])
             /\ q' = [q EXCEPT ![l] = Tail(@)]
             /\ pc' = [pc EXCEPT !["send"] = "write"]
  /\ UNCHANGED <<peerVars, p2pMap, clRet, localVars, histVars>>
  /\ UNCHANGED <<restVars, directVars, wire, nextSeq, inv, pool, received, timeVars, callVars>>

\* ctx := p.q.Pop(); if ctx == nil { break }
SRPop ==
  /\ pc["send"] = "pop"
  /\ IF QEmpty(q)
     THEN /\ pc' = [pc EXCEPT !["send"] = "select"]
          /\ UNCHANGED <<q, srPkt>>
     ELSE /\ srPkt' = Head(q[QTop(q)])
          /\ q' = [q EXCEPT ![QTop(q)] = Tail(@)]
          /\ pc' = [pc EXCEPT !["send"] = "write"]
  /\ UNCHANGED <<peerVars, p2pMap, clRet, localVars, histVars>>
  /\ UNCHANGED <<restVars, directVars, wire, nextSeq, inv, pool, received, timeVars, callVars>>

\* a packet of a level more urgent than prio waits in the queue
MoreUrgentWaits(qq, prio) == \E p \in Prios : p < prio /\ qq[p] # <<>>

\* p.sendDirect(pkt) as one step, where the send routine is the only writer:
\* the packet is written and flushed, or the error closes the peer and ends
\* the routine, whatever isTemporaryError says of it
SRWrite(errs) ==
  /\ pc["send"] = "write"
  /\ \/ /\ connCloseN = 0
        /\ wire' = Log(wire, srPkt)
        /\ inv' = IF MoreUrgentWaits(q, srPkt.pkt.prio) THEN NextNum(inv) ELSE inv
        /\ pc' = [pc EXCEPT !["send"] = "put"]
        /\ UNCHANGED <<closeInfoN, clRet>>
     \/ /\ errs # {} \/ connCloseN > 0
        /\ CallClose("send", "done")
        /\ UNCHANGED <<wire, inv>>
  /\ UNCHANGED <<identVars, cbVars, closed, connCloseN, chanCloseN, once>>
  /\ UNCHANGED <<p2pMap, localVars, histVars>>
  /\ UNCHANGED <<restVars, directVars, q, srPkt, nextSeq, pool, received, timeVars, callVars>>

\* p.pool.Put(pkt.hashOfPacket) after the write
SRPut ==
  /\ pc["send"] = "put"
  /\ pool' = PoolPut(pool, srPkt.pkt.h)
  /\ pc' = [pc EXCEPT !["send"] = "pop"]
  /\ UNCHANGED <<peerVars, p2pMap, clRet, localVars, histVars>>
  /\ UNCHANGED <<restVars, directVars, queueVars, received, timeVars, callVars>>

\* a panic in the send routine between Pop and the end of the loop body:
\* sendRoutine defers secondTick.Stop() only, nothing recovers, and the
\* runtime ends the process with every goroutine in it
SRPanic ==
  /\ pc["send"] \in {"pop", "write", "put"}
  /\ pc' = [t \in Threads |-> "crashed"]
  /\ UNCHANGED <<peerVars, p2pMap, clRet, localVars, histVars, sendVars, restVars>>

(***************************************************************************)
(* Peer.sendDirect step by step, and its callers                           *)
(***************************************************************************)
\* the goroutines that call sendDirect: the send routine, and goroutines in
\* peerHandler.sendMessage
DirectThreads == {"send"} \cup Senders

\* sendDirect between Lock and Unlock
InDirect(t) == pc[t] \in {"sd_write", "sd_flush", "sd_ok", "sd_err"}

\* peerHandler.sendMessage: err := p.sendDirect(pkt)
SendMessage(t) ==
  /\ pc[t] = "idle"
  /\ msgs < MaxMsgs
  /\ msgs' = msgs + 1
  /\ pc' = [pc EXCEPT ![t] = "sd_lock"]
  /\ UNCHANGED <<peerVars, p2pMap, clRet, localVars, histVars>>
  /\ UNCHANGED <<queueVars, pool, received, timeVars, callVars, sendMtx, raw, restVars>>

\* sendRoutine: if err := p.sendDirect(pkt)
SRSendDirect ==
  /\ pc["send"] = "write"
  /\ pc' = [pc EXCEPT !["send"] = "sd_lock"]
  /\ UNCHANGED <<peerVars, p2pMap, clRet, localVars, histVars, sendVars, restVars>>

\* variant: Lock does not wait for the holder
SdLock_NoWait(t) ==
  /\ pc[t] = "sd_lock"
  /\ sendMtx' = t
  /\ pc' = [pc EXCEPT ![t] = "sd_write"]
  /\ UNCHANGED <<peerVars, p2pMap, clRet, localVars, histVars>>
  /\ UNCHANGED <<queueVars, pool, received, timeVars, callVars, raw, msgs, restVars>>

\* p.sendMtx.Lock()
SdLock(t) ==
  /\ pc[t] = "sd_lock"
  /\ sendMtx = "none"
  /\ sendMtx' = t
  /\ pc' = [pc EXCEPT ![t] = "sd_write"]
  /\ UNCHANGED <<peerVars, p2pMap, clRet, localVars, histVars>>
  /\ UNCHANGED <<queueVars, pool, received, timeVars, callVars, raw, msgs, restVars>>

\* p.conn.SetWriteDeadline(...); p.writer.WritePacket(pkt)
SdWrite(t, errs) ==
  /\ pc[t] = "sd_write"
  /\ \/ /\ connCloseN = 0
        /\ raw' = Append(raw, [by |-> t, part |-> "packet"])
        /\ pc' = [pc EXCEPT ![t] = "sd_flush"]
     \/ /\ errs # {} \/ connCloseN > 0
        /\ pc' = [pc EXCEPT ![t] = "sd_err"]
        /\ UNCHANGED raw
  /\ UNCHANGED <<peerVars, p2pMap, clRet, localVars, histVars>>
  /\ UNCHANGED <<queueVars, pool, received, timeVars, callVars, sendMtx, msgs, restVars>>

\* p.writer.Flush()
SdFlush(t, errs) ==
  /\ pc[t] = "sd_flush"
  /\ \/ /\ connCloseN = 0
        /\ raw' = Append(raw, [by |-> t, part |-> "flush"])
        /\ pc' = [pc EXCEPT ![t] = "sd_ok"]
     \/ /\ errs # {} \/ connCloseN > 0
        /\ raw' = Append(raw, [by |-> t, part |-> "fail"])
        /\ pc' = [pc EXCEPT ![t] = "sd_err"]
  /\ UNCHANGED <<peerVars, p2pMap, clRet, localVars, histVars>>
  /\ UNCHANGED <<queueVars, pool, received, timeVars, callVars, sendMtx, msgs, restVars>>

\* the deferred p.sendMtx.Unlock() and the return to the caller: sendMessage
\* logs the error, sendRoutine closes the peer by it and ends
SdUnlock(t) ==
  /\ InDirect(t) /\ pc[t] \in {"sd_ok", "sd_err"}
  /\ sendMtx' = "none"
  /\ IF t = "send"
     THEN IF pc[t] = "sd_ok"
          THEN /\ wire' = Log(wire, srPkt)
               /\ inv' = IF MoreUrgentWaits(q, srPkt.pkt.prio)
                         THEN NextNum(inv) ELSE inv
               /\ pc' = [pc EXCEPT ![t] = "put"]
               /\ UNCHANGED <<closeInfoN, clRet>>
          ELSE /\ CallClose(t, "done")
               /\ UNCHANGED <<wire, inv>>
     ELSE /\ pc' = [pc EXCEPT ![t] = "idle"]
          /\ UNCHANGED <<wire, inv, closeInfoN, clRet>>
  /\ UNCHANGED <<identVars, cbVars, closed, connCloseN, chanCloseN, once>>
  /\ UNCHANGED <<p2pMap, localVars, histVars>>
  /\ UNCHANGED <<q, srPkt, nextSeq, pool, received, timeVars, callVars, raw, msgs, restVars>>

\* one second passes
Tick ==
  /\ pool' = PoolAge(pool)
  /\ sweepDue' = TRUE
  /\ UNCHANGED <<restVars, directVars, lifeVars, queueVars, received, callVars>>

\* p.Close(reason) called by a goroutine of the overlay that holds the peer
ExtClose ==
  /\ pc["ext"] = "idle"
  /\ handed # {}
  /\ extCloses < MaxExtClose
  /\ extCloses' = extCloses + 1
  /\ CallClose("ext", "idle")
  /\ UNCHANGED <<identVars, cbVars, closed, connCloseN, chanCloseN, once>>
  /\ UNCHANGED <<p2pMap, clCb, cur, tgt, rcb, rkind, authRound, reads>>
  /\ UNCHANGED <<histVars, sendVars, restVars>>

(***************************************************************************)
(* Spec: one connection, from accept or dial to its death                  *)
(***************************************************************************)
\* the state of the send path before any packet is sent or read
SendIdle ==
  /\ q = [p \in Prios |-> <<>>]
  /\ pool = [h \in Hashes |-> -1]
  /\ sweepDue = FALSE
  /\ wire = <<>> /\ srPkt = NoPacket /\ nextSeq = 0 /\ inv = 0
  /\ spkt = [t \in Senders |-> NoPacket]
  /\ sends = 0 /\ received = {}
  /\ sret = [t \in Senders |-> "none"]
  /\ cnt = [t \in Senders |-> NoCount]
  /\ sendMtx = "none" /\ raw = <<>> /\ msgs = 0

NoConnection ==
  /\ inbound = FALSE /\ channel = "" /\ id = "nil"
  /\ closed = 0 /\ connCloseN = 0 /\ chanCloseN = 0 /\ closeInfoN = 0
  /\ cbPacket = NoHandler /\ cbError = DefaultCb /\ cbClose = DefaultCb
  /\ once = 0
  /\ p2pMap = [c \in Channels |-> "none"]
  /\ pc = [t \in Threads |-> IF t = "accept" THEN "init" ELSE "idle"]
  /\ clRet = [t \in Threads |-> "none"]
  /\ clCb = [t \in Threads |-> NoHandler]
  /\ cur = [t \in Threads |-> NoHandler]
  /\ tgt = [t \in Threads |-> "none"]
  /\ rcb = NoHandler /\ rkind = "none"
  /\ authRound = 0 /\ reads = 0 /\ extCloses = 0
  /\ closeCbN = 0 /\ closeCbTo = {} /\ overlayPeers = {}
  /\ events = {}
  /\ passed = <<>> /\ firstHandler = NoHandler /\ onPeerCalled = {}
  /\ handed = {} /\ noP2P = FALSE
  /\ SendIdle

Init == NoConnection /\ RestIdle

\* the hash of the packets read in Spec, where the overlay sends nothing
LifeHashes == {1}

\* the errors a connection can have, and those of one that does not fail
ConnErrors == {"temporary", "permanent"}
NoErrors == {}

Next ==
  \/ Accept
  \/ DpSetErr
  \/ DpSetClose
  \/ DpOnPeer
  \/ \E o \in Overlays : RegistPeerToPeer(o)
  \/ RecvRead(LifeHashes, ConnErrors)
  \/ RecvCallPkt
  \/ RecvCallErr
  \/ RecvDefer
  \/ \E t \in ChainThreads : NopSetErr(t)
  \/ \E t \in ChainThreads : NopSetClose(t)
  \/ \E t \in ChainThreads : NopOnPeer(t)
  \/ \E t \in ChainThreads : PdSetErr(t)
  \/ \E t \in ChainThreads : PdSetClose(t)
  \/ \E t \in ChainThreads : PdP2POnPeer(t)
  \/ SRSelect
  \/ ExtClose
  \/ \E t \in Threads : CloseCAS(t)
  \/ \E t \in Threads : CloseConn(t)
  \/ \E t \in Threads : CloseChan(t)
  \/ \E t \in Threads : CloseGetCb(t)
  \/ \E t \in Threads : CloseCall(t)

Spec == Init /\ [][Next]_vars

(***************************************************************************)
(* A peer that an overlay holds                                            *)
(***************************************************************************)
\* the state Spec reaches when an outbound peer of channel "main" has passed
\* the chain without a race and was handed to the overlay of "main"
AttachedPeer ==
  /\ inbound = FALSE /\ channel = "main" /\ id = "remote"
  /\ closed = 0 /\ connCloseN = 0 /\ chanCloseN = 0 /\ closeInfoN = 0
  /\ cbPacket = "p2p_main" /\ cbError = "p2p_main" /\ cbClose = "p2p_main"
  /\ once = 1
  /\ p2pMap = [c \in Channels |-> IF c = "main" THEN "p2p_main" ELSE "none"]
  /\ clRet = [t \in Threads |-> "none"]
  /\ clCb = [t \in Threads |-> NoHandler]
  /\ cur = [t \in Threads |-> IF t = "recv" THEN "cn" ELSE NoHandler]
  /\ tgt = [t \in Threads |-> IF t = "recv" THEN "p2p_main" ELSE "none"]
  /\ rcb = "cn" /\ rkind = "ok"
  /\ authRound = AuthRounds /\ reads = AuthRounds + 1 /\ extCloses = 0
  /\ closeCbN = 0 /\ closeCbTo = {} /\ overlayPeers = {"p2p_main"}
  /\ events = {[kind |-> "packet", to |-> "a", fwd |-> {}, after |-> 0],
               [kind |-> "packet", to |-> "a", fwd |-> {}, after |-> 1],
               [kind |-> "packet", to |-> "cn", fwd |-> {"a"}, after |-> 1]}
  /\ passed = <<"a", "cn">> /\ firstHandler = "a"
  /\ onPeerCalled = {"a", "cn", "pd"}
  /\ handed = {"p2p_main"} /\ noP2P = FALSE

\* the routines of the peer run, no goroutine of the overlay is in a call
AttachedPc ==
  [t \in Threads |->
     CASE t = "accept" -> "done"
       [] t = "recv" -> "read"
       [] t = "send" -> "select"
       [] OTHER -> "idle"]

InitSend ==
  /\ AttachedPeer
  /\ pc = AttachedPc
  /\ q = [p \in Prios |-> <<>>]
  /\ pool = [h \in Hashes |-> IF h \in LifeHashes THEN 0 ELSE -1]
  /\ sweepDue = FALSE
  /\ wire = <<>> /\ srPkt = NoPacket /\ nextSeq = 0 /\ inv = 0
  /\ spkt = [t \in Senders |-> NoPacket]
  /\ sends = 0 /\ received = LifeHashes
  /\ sret = [t \in Senders |-> "none"]
  /\ cnt = [t \in Senders |-> NoCount]
  /\ sendMtx = "none" /\ raw = <<>> /\ msgs = 0
  /\ RestIdle

(***************************************************************************)
(* SpecSend: the goroutines of the overlay send to the peer while the      *)
(* send routine drains the queue and its writes can fail                   *)
(***************************************************************************)
\* what the overlay sends: its own packets and those of other peers
SendPkts == Packets({"other"}, {"nil"}, Hashes)

NextSend ==
  \/ \E t \in Senders : SendCall(t, SendPkts, MaxSends)
  \/ \E t \in Senders : SendCheck(t)
  \/ \E t \in Senders : SendPush(t)
  \/ \E t \in Senders : SendReturn(t)
  \/ SRSelect
  \/ SRPop
  \/ SRWrite(ConnErrors)
  \/ SRPut
  \/ \E t \in Threads : CloseCAS(t)
  \/ \E t \in Threads : CloseConn(t)
  \/ \E t \in Threads : CloseChan(t)
  \/ \E t \in Threads : CloseGetCb(t)
  \/ \E t \in Threads : CloseCall(t)

SpecSend == InitSend /\ [][NextSend]_vars

(***************************************************************************)
(* SpecClose: the closers of a peer race: the receive routine on an error  *)
(* and when it ends, the send routine on a failed write, the overlay       *)
(***************************************************************************)
\* one packet of the overlay waits in the queue
InitClose ==
  /\ AttachedPeer
  /\ pc = AttachedPc
  /\ \E pkt \in SendPkts :
       /\ ~PoolContains([h \in Hashes |-> IF h \in LifeHashes THEN 0 ELSE -1], pkt.h)
       /\ q = [p \in Prios |-> IF p = pkt.prio
                               THEN <<[pkt |-> pkt, seq |-> 1, inPool |-> FALSE]>>
                               ELSE <<>>]
  /\ pool = [h \in Hashes |-> IF h \in LifeHashes THEN 0 ELSE -1]
  /\ sweepDue = FALSE
  /\ wire = <<>> /\ srPkt = NoPacket /\ nextSeq = 1 /\ inv = 0
  /\ spkt = [t \in Senders |-> NoPacket]
  /\ sends = 1 /\ received = LifeHashes
  /\ sret = [t \in Senders |-> "none"]
  /\ cnt = [t \in Senders |-> NoCount]
  /\ sendMtx = "none" /\ raw = <<>> /\ msgs = 0
  /\ RestIdle

NextClose ==
  \/ SRSelect
  \/ SRPop
  \/ SRWrite(ConnErrors)
  \/ SRPut
  \/ RecvRead({}, ConnErrors)
  \/ RecvCallErr
  \/ RecvDefer
  \/ ExtClose
  \/ \E t \in Threads : CloseCAS(t)
  \/ \E t \in Threads : CloseConn(t)
  \/ \E t \in Threads : CloseChan(t)
  \/ \E t \in Threads : CloseGetCb(t)
  \/ \E t \in Threads : CloseCall(t)

SpecClose == InitClose /\ [][NextClose]_vars

(***************************************************************************)
(* SpecDedup: one goroutine of the overlay sends, among others the packets *)
(* read from the peer, while packets arrive and time passes; the           *)
(* connection does not fail                                                *)
(***************************************************************************)
DedupSenders == {"s1"}

DedupPkts ==
  {pkt \in Packets({"other"}, {"nil", "remote"}, Hashes) : pkt.prio = 0}

NextDedup ==
  \/ \E t \in DedupSenders : SendCall(t, DedupPkts, MaxRelays)
  \/ \E t \in DedupSenders : SendCheck(t)
  \/ \E t \in DedupSenders : SendPush(t)
  \/ \E t \in DedupSenders : SendReturn(t)
  \/ SRSelect
  \/ SRTick
  \/ SRPop
  \/ SRWrite(NoErrors)
  \/ SRPut
  \/ Tick
  \/ RecvRead(Hashes, NoErrors)
  \/ RecvCallPkt

SpecDedup == InitSend /\ [][NextDedup]_vars

(***************************************************************************)
(* SpecIsDup: isDuplicatedToSend applied to every packet and pool          *)
(***************************************************************************)
IsDupPkts == Packets({"remote", "other"}, {"nil", "remote", "other"}, Hashes)

InitIsDup ==
  /\ AttachedPeer
  /\ pc = [AttachedPc EXCEPT !["s1"] = "chk"]
  /\ q = [p \in Prios |-> <<>>]
  /\ pool \in [Hashes -> -1..0]
  /\ sweepDue = FALSE
  /\ wire = <<>> /\ srPkt = NoPacket /\ nextSeq = 0 /\ inv = 0
  /\ \E pkt \in IsDupPkts : spkt = [t \in Senders |-> IF t = "s1" THEN pkt ELSE NoPacket]
  /\ sends = 1 /\ received = Hashes
  /\ sret = [t \in Senders |-> "none"]
  /\ cnt = [t \in Senders |-> IF t = "s1" THEN [NoCount EXCEPT !.peer = 1] ELSE NoCount]
  /\ sendMtx = "none" /\ raw = <<>> /\ msgs = 0
  /\ RestIdle

NextIsDup == \E t \in Senders : SendCheck(t)

SpecIsDup == InitIsDup /\ [][NextIsDup]_vars

(***************************************************************************)
(* SpecDrain: one goroutine of the overlay keeps sending packets of every  *)
(* priority while the send routine drains; the connection does not fail    *)
(***************************************************************************)
DrainSenders == {"s1"}

\* packets of another node: forced ones with a hash the pool does not hold
\* at the start, and not forced ones with a hash that it holds
DrainPkts ==
  {pkt \in Packets({"other"}, {"nil"}, Hashes) : pkt.force = (pkt.h \notin LifeHashes)}

NextDrain ==
  \/ \E t \in DrainSenders : SendCall(t, DrainPkts, MaxDrainSends)
  \/ \E t \in DrainSenders : SendCheck(t)
  \/ \E t \in DrainSenders : SendPush(t)
  \/ \E t \in DrainSenders : SendReturn(t)
  \/ SRSelect
  \/ SRPop
  \/ SRWrite(NoErrors)
  \/ SRPut

SpecDrain == InitSend /\ [][NextDrain]_vars

(***************************************************************************)
(* SpecProgress: the goroutine of the overlay never stops sending; the     *)
(* send routine and a goroutine inside Peer.send are scheduled again and   *)
(* again, the connection does not fail and nobody closes the peer          *)
(***************************************************************************)
\* the forced packets among those of SpecDrain: the pool stops none of them
ProgressPkts == {pkt \in DrainPkts : pkt.force}

\* one of any number of calls of Peer.send
SendAgain(t, pkts) == SendEnter(t, pkts) /\ UNCHANGED sends

SendRoutineStep == SRSelect \/ SRPop \/ SRWrite(NoErrors) \/ SRPut

SendInProgress ==
  \E t \in DrainSenders : SendCheck(t) \/ SendPush(t) \/ SendReturn(t)

NextProgress ==
  \/ \E t \in DrainSenders : SendAgain(t, ProgressPkts)
  \/ \E t \in DrainSenders : SendCheck(t)
  \/ \E t \in DrainSenders : SendPush(t)
  \/ \E t \in DrainSenders : SendReturn(t)
  \/ SRSelect
  \/ SRPop
  \/ SRWrite(NoErrors)
  \/ SRPut

SpecProgress ==
  /\ InitSend
  /\ [][NextProgress]_vars
  /\ WF_vars(SendRoutineStep)
  /\ WF_vars(SendInProgress)

(***************************************************************************)
(* SpecWrite: the send routine writes the queued packet while goroutines   *)
(* of handlers send messages with sendMessage; the connection can fail     *)
(***************************************************************************)
NextWrite ==
  \/ SRSelect
  \/ SRPop
  \/ SRSendDirect
  \/ SRPut
  \/ \E t \in Senders : SendMessage(t)
  \/ \E t \in DirectThreads : SdLock(t)
  \/ \E t \in DirectThreads : SdWrite(t, ConnErrors)
  \/ \E t \in DirectThreads : SdFlush(t, ConnErrors)
  \/ \E t \in DirectThreads : SdUnlock(t)
  \/ \E t \in Threads : CloseCAS(t)
  \/ \E t \in Threads : CloseConn(t)
  \/ \E t \in Threads : CloseChan(t)
  \/ \E t \in Threads : CloseGetCb(t)
  \/ \E t \in Threads : CloseCall(t)

SpecWrite == InitClose /\ [][NextWrite]_vars

(***************************************************************************)
(* SpecTemporary: a peer held by an overlay on a connection whose reads    *)
(* and writes fail with temporary errors only; the overlay sends and does  *)
(* not close the peer                                                      *)
(***************************************************************************)
TemporaryErrors == {"temporary"}

NextTemporary ==
  \/ \E t \in Senders : SendCall(t, SendPkts, MaxSends)
  \/ \E t \in Senders : SendCheck(t)
  \/ \E t \in Senders : SendPush(t)
  \/ \E t \in Senders : SendReturn(t)
  \/ SRSelect
  \/ SRPop
  \/ SRWrite(TemporaryErrors)
  \/ SRPut
  \/ RecvRead({}, TemporaryErrors)
  \/ RecvCallErr
  \/ RecvDefer
  \/ \E t \in Threads : CloseCAS(t)
  \/ \E t \in Threads : CloseConn(t)
  \/ \E t \in Threads : CloseChan(t)
  \/ \E t \in Threads : CloseGetCb(t)
  \/ \E t \in Threads : CloseCall(t)

SpecTemporary == InitClose /\ [][NextTemporary]_vars

(***************************************************************************)
(* SpecPanic: a peer held by an overlay with a packet to send; the code    *)
(* that the two routines run can panic                                     *)
(***************************************************************************)
NextPanic ==
  \/ SRSelect
  \/ SRPop
  \/ SRWrite(ConnErrors)
  \/ SRPut
  \/ SRPanic
  \/ RecvRead(LifeHashes, ConnErrors)
  \/ RecvCallPkt
  \/ RecvCallErr
  \/ RecvDefer
  \/ RecvPanic
  \/ \E t \in Threads : CloseCAS(t)
  \/ \E t \in Threads : CloseConn(t)
  \/ \E t \in Threads : CloseChan(t)
  \/ \E t \in Threads : CloseGetCb(t)
  \/ \E t \in Threads : CloseCall(t)

SpecPanic == InitClose /\ [][NextPanic]_vars

(***************************************************************************)
(* SpecListener: goroutines call Listen and Close of one Listener          *)
(***************************************************************************)
LsnOps == {"Listen", "Close"}

InitListener == NoConnection /\ RestIdle

NextListener ==
  \/ \E c \in LsnCallers : \E op \in LsnOps : ListenerCall(c, op)
  \/ \E c \in LsnCallers : ListenerLock(c)
  \/ \E c \in LsnCallers : ListenerListen(c)
  \/ \E c \in LsnCallers : ListenerClose(c)
  \/ \E c \in LsnCallers : ListenerUnlock(c)
  \/ ListenerAccept
  \/ ListenerAcceptError

SpecListener == InitListener /\ [][NextListener]_vars

\* the accessors of the properties of one Peer, called by two goroutines
InitFields == NoConnection /\ RestIdle

NextFields ==
  \/ \E g \in FieldCallers : \E op \in FieldOps : \E v \in FieldValues :
       FieldCall(g, op, v)
  \/ \E g \in FieldCallers : FieldLock(g)
  \/ \E g \in FieldCallers : FieldAccess(g)
  \/ \E g \in FieldCallers : FieldUnlock(g)

SpecFields == InitFields /\ [][NextFields]_vars

\* the state sync client with two peers, the syncer sending requests and
\* taking replies while requests succeed or fail and time passes
InitSync == NoConnection /\ RestIdle

NextSync ==
  \/ \E p \in SyncPeers : \E kind \in RequestKinds : \E ok \in BOOLEAN :
       SyncerRequest(p, kind, ok)
  \/ \E p \in SyncPeers : SyncerReply(p)
  \/ \E i \in 1..MaxRequests : TimerFire(i)
  \/ \E i \in 1..MaxRequests : TimerCallback(i)
  \/ SyncTick

SpecSync == InitSync /\ [][NextSync]_vars

\* Validate applied to addresses: what stands before the port, and a port of
\* up to MaxPortLen characters after its sign, if it has one
PortChars == {"0", "3", "5", "6", "x"}
Signs == {<<>>, <<"+">>, <<"-">>}

RECURSIVE Strings(_)
Strings(n) ==
  IF n = 0 THEN {<<>>}
  ELSE Strings(n - 1) \cup
       {Append(w, c) : w \in {v \in Strings(n - 1) : Len(v) = n - 1}, c \in PortChars}

BeforePort ==
  {<<>>, <<":">>, <<"h", ":">>, <<"[", "h", "]", ":">>, <<"h", ":", "h", ":">>,
   <<"[", "h", ":">>, <<"h", "]", ":">>, <<"[", "h", "]", "x", ":">>}

InitValidate ==
  /\ NoConnection
  /\ lsn = newListener /\ fld = newFields /\ syn = newSync /\ net = noNet
  /\ mgr = newManager
  /\ tok = newToken
  /\ rpc = newRpc
  /\ hgt = newHeightCall
  /\ \E b \in BeforePort : \E sg \in Signs : \E w \in Strings(MaxPortLen) :
       adr = [a |-> b \o sg \o w, st |-> "new", err |-> "none"]

NextValidate == ValidateCall

SpecValidate == InitValidate /\ [][NextValidate]_vars

\* one broadcast from any node of any connected overlay of the nodes
InitFlood ==
  /\ NoConnection
  /\ lsn = newListener /\ fld = newFields /\ syn = newSync /\ adr = newAddress
  /\ mgr = newManager
  /\ tok = newToken
  /\ rpc = newRpc
  /\ hgt = newHeightCall
  /\ \E links \in Topologies : \E o \in Nodes :
       net = [noNet EXCEPT !.links = links, !.origin = o]

NextFlood ==
  \/ NetBroadcast
  \/ \E pr \in Pairs : NetSendRoutine(pr[1], pr[2])
  \/ \E pr \in Pairs : NetReceive(pr[1], pr[2])

SpecFlood == InitFlood /\ [][NextFlood]_vars

(***************************************************************************)
(* SpecShutdown: a peer is closed by its routines or by the overlay while  *)
(* a goroutine waits for the close                                         *)
(***************************************************************************)
Waiters == {"s1"}

\* Peer.WaitClose: return at once when closed, otherwise wait on p.close
WaitCloseCall(t) ==
  /\ pc[t] = "idle"
  /\ pc' = [pc EXCEPT ![t] = IF closed = 1 THEN "wc_ret" ELSE "wc_wait"]
  /\ UNCHANGED <<peerVars, p2pMap, clRet, localVars, histVars, sendVars, restVars>>

\* <-p.close
WaitCloseWake(t) ==
  /\ pc[t] = "wc_wait"
  /\ chanCloseN > 0
  /\ pc' = [pc EXCEPT ![t] = "wc_ret"]
  /\ UNCHANGED <<peerVars, p2pMap, clRet, localVars, histVars, sendVars, restVars>>

\* the steps of a Close call made by goroutine t
CloseStep(t) ==
  \/ CloseCAS(t)
  \/ CloseConn(t)
  \/ CloseChan(t)
  \/ CloseGetCb(t)
  \/ CloseCall(t)

\* the steps the send routine takes by itself
SendRoutineRuns ==
  SRSelect \/ SRPop \/ SRWrite(ConnErrors) \/ SRPut \/ CloseStep("send")

\* the steps the receive routine takes by itself: its callbacks, its Close
\* calls, and the read once the connection is closed
ReceiveRoutineRuns ==
  \/ connCloseN > 0 /\ RecvRead({}, ConnErrors)
  \/ RecvCallErr
  \/ RecvDefer
  \/ CloseStep("recv")

NextShutdown ==
  \/ SRSelect
  \/ SRPop
  \/ SRWrite(ConnErrors)
  \/ SRPut
  \/ RecvRead({}, ConnErrors)
  \/ RecvCallErr
  \/ RecvDefer
  \/ RecvPanic
  \/ ExtClose
  \/ \E t \in Waiters : WaitCloseCall(t)
  \/ \E t \in Waiters : WaitCloseWake(t)
  \/ \E t \in Threads : CloseCAS(t)
  \/ \E t \in Threads : CloseConn(t)
  \/ \E t \in Threads : CloseChan(t)
  \/ \E t \in Threads : CloseGetCb(t)
  \/ \E t \in Threads : CloseCall(t)

\* every goroutine that can run does run
SpecShutdown ==
  /\ InitClose
  /\ [][NextShutdown]_vars
  /\ WF_vars(SendRoutineRuns)
  /\ WF_vars(ReceiveRoutineRuns)
  /\ \A t \in Waiters \cup {"ext"} : WF_vars(CloseStep(t) \/ WaitCloseWake(t))

\* the token is deployed and its holders transfer
InitToken == NoConnection /\ RestIdle

NextToken ==
  \/ \E d \in -1..MaxDecimals : \E sup \in -1..MaxInitialSupply : TokenDeploy(d, sup)
  \/ \E from, to \in TokenAddrs : \E v \in -1..MaxValue : \E ok \in BOOLEAN :
       TokenTransfer(from, to, v, ok)

SpecToken == InitToken /\ [][NextToken]_vars

\* one wait call of the JSON-RPC server, the result and the timer racing
InitRpc == NoConnection /\ RestIdle

NextRpc ==
  \/ \E m \in WaitMethods : \E dt, ut \in Timeouts : \E mt \in 1..MaxTimeout :
       \E f \in WaitFailures : RpcCall(m, dt, ut, mt, f)
  \/ RpcArm
  \/ \E r \in WaitResults : RpcResult(r)
  \/ RpcTick
  \/ RpcCancel
  \/ \E c \in {"fc", "tc", "done"} : RpcSelect(c)
  \/ RpcBlock

SpecRpc == InitRpc /\ [][NextRpc]_vars

\* one call of a method that takes a height, on chains with and without
\* pruned blocks
InitHeight == NoConnection /\ RestIdle

NextHeight ==
  \/ \E m \in ByHeightMethods : \E given \in BOOLEAN : \E h \in Heights :
       \E base, last \in 0..MaxHeight : HeightCall(m, given, h, base, last)
  \/ \E f \in HeightFailures : HeightFail(f)
  \/ HeightCheck
  \/ HeightAsk

SpecHeight == InitHeight /\ [][NextHeight]_vars

\* the sync Manager called by two goroutines while syncers are made and call
\* back
InitManager == NoConnection /\ RestIdle

MgrStep ==
  \/ \E t \in MgrThreads : MgrLock(t)
  \/ \E t \in MgrThreads : \E sync \in BOOLEAN : MgrBody(t, sync)
  \/ \E t \in MgrThreads : MgrUnlock(t)

NextManager ==
  \/ MgrNewSyncer
  \/ \E t \in MgrThreads : \E o \in MgrOps : MgrCall(t, o)
  \/ MgrStep

SpecManager == InitManager /\ [][NextManager]_vars

\* the same, every call under way taking its next step when it can
SpecManagerLive == SpecManager /\ WF_vars(MgrStep)

(***************************************************************************)
(* Properties                                                              *)
(***************************************************************************)
CloseSteps == {"cl_conn", "cl_chan", "cl_getcb", "cl_call"}

InClose(t) == pc[t] \in CloseSteps

\* C1: however many Close / CloseByError calls race, the connection is closed
\* at most once, the close channel is closed at most once and the close
\* callback is invoked at most once; nothing of it happens before the flag is
\* set, only one goroutine is ever past the compare-and-swap, and once that
\* goroutine is through each of the three has happened exactly once.
CloseExactlyOnce ==
  /\ connCloseN <= 1 /\ chanCloseN <= 1 /\ closeCbN <= 1
  /\ closed = 0 => connCloseN = 0 /\ chanCloseN = 0 /\ closeCbN = 0
  /\ Cardinality({t \in Threads : InClose(t)}) <= 1
  /\ (closed = 1 /\ \A t \in Threads : ~InClose(t))
       => connCloseN = 1 /\ chanCloseN = 1 /\ closeCbN = 1

\* the receive routine closed by error and again when it ended, the send
\* routine closed on a failed write, the overlay closed: one callback
FourClosesOneCallback ==
  /\ closeInfoN = 4 /\ extCloses = 1
  /\ pc["recv"] = "done" /\ pc["send"] = "done" /\ pc["ext"] = "idle"
  /\ connCloseN = 1 /\ chanCloseN = 1 /\ closeCbN = 1

\* C2: the closed flag starts at 0, is 0 or 1, changes only from 0 to 1, and
\* once it is 1 (IsClosed() true) it is 1 in every later state.
IsClosedMonotone ==
  /\ closed = 0
  /\ [][/\ closed' \in {0, 1}
        /\ closed = 1 => closed' = 1
        /\ closed' # closed => closed = 0 /\ closed' = 1]_vars

\* the peer was closed and a later Close call went through its
\* compare-and-swap and returned
ClosedAndClosedAgain ==
  /\ IsClosed /\ closeInfoN >= 2 /\ closeCbN = 1
  /\ \A t \in Threads : pc[t] # "cl_cas" /\ ~InClose(t)

HandshakeLinear ==
  \A e \in events : e.to \notin e.fwd /\ StageIdx(e.to) >= e.after

\* C5: an overlay gets a peer, its callbacks or its events only if it is the
\* overlay registered under the peer's channel, and the peer it got has that
\* overlay's onPacket as packet callback; when PeerDispatcher.onPeer found no
\* overlay for the channel, Close was called and no overlay has the peer or
\* an event of it, whatever is registered later.
OnlyOverlayOfChannel ==
  /\ \A o \in handed : P2PChannel(o) = channel /\ p2pMap[channel] = o /\ cbPacket = o
  /\ \A e \in events : e.to \in Overlays => e.to \in handed
  /\ \A cb \in {cbPacket, cbError, cbClose} : cb \in Overlays => P2PChannel(cb) = channel
  /\ noP2P => /\ handed = {} /\ overlayPeers = {}
              /\ closeInfoN >= 1
              /\ \A e \in events : e.to \notin Overlays

\* both overlays are registered, the peer negotiated "aux" and its packet
\* went to the overlay of "aux"
AuxPeerToAuxOverlay ==
  /\ channel = "aux" /\ handed = {"p2p_aux"}
  /\ p2pMap["main"] = "p2p_main"
  /\ \E e \in events : e.kind = "packet" /\ e.to = "p2p_aux"

\* C6: when the close callback of a peer has run, every overlay the peer was
\* handed to had its onClose invoked and no overlay table holds the peer.
OverlayToldOfDeath ==
  closeCbN >= 1 => handed \subseteq closeCbTo /\ overlayPeers = {}

\* C7: isDuplicatedToSend(pkt) is true exactly when pkt.src is the peer's id,
\* or forceSend is false and pkt.sender is set and is the peer's id, or
\* forceSend is false and the pool contains the packet's hash; Peer.send
\* returns ErrDuplicatedPacket in these cases and goes on to Push in the others.
DupTruth(pkt) ==
  \/ pkt.src = id
  \/ ~pkt.force /\ pkt.sender # "nil" /\ pkt.sender = id
  \/ ~pkt.force /\ PoolContains(pool, pkt.h)

IsDuplicatedTruthTable ==
  /\ \A pkt \in IsDupPkts : isDuplicatedToSend(pkt) <=> DupTruth(pkt)
  /\ \A t \in Senders :
       /\ pc[t] = "ret" => sret[t] = "ErrDuplicatedPacket" /\ DupTruth(spkt[t])
       /\ pc[t] = "push" => ~DupTruth(spkt[t])

\* forceSend does not help a packet whose source is the peer, and it lets
\* pass a packet that the peer delivered and whose hash is in the pool
ForcedOwnPacketIsDuplicate ==
  /\ pc["s1"] = "ret" /\ sret["s1"] = "ErrDuplicatedPacket"
  /\ spkt["s1"].force /\ spkt["s1"].src = id
  /\ spkt["s1"].sender # id /\ ~PoolContains(pool, spkt["s1"].h)

\* the contexts pushed so far: queued, taken by the send routine, written
AllCtx ==
  UNION {{q[p][i] : i \in DOMAIN q[p]} : p \in Prios}
    \cup {wire[i] : i \in DOMAIN wire}
    \cup (IF srPkt = NoPacket THEN {} ELSE {srPkt})

\* C8: no Push of a packet succeeds while the pool holds the packet's hash,
\* unless the packet has forceSend set.
NoEnqueueWhileInPool ==
  \A c \in AllCtx : c.inPool => c.pkt.force

\* C9: a packet read from the peer (its sender is the peer's id) and sent
\* without forceSend is never pushed, taken by the send routine or written;
\* its Peer.send stops at the duplicate check with ErrDuplicatedPacket (or,
\* on a closed peer, before it with ErrNotAvailable).
NeverSentBack ==
  /\ \A c \in AllCtx : c.pkt.sender = id => c.pkt.force
  /\ \A t \in Senders :
       (spkt[t] # NoPacket /\ spkt[t].sender = id /\ ~spkt[t].force)
         => \/ pc[t] = "chk"
            \/ pc[t] = "ret" /\ sret[t] = "ErrDuplicatedPacket"
            \/ pc[t] = "ret" /\ sret[t] = "ErrNotAvailable" /\ IsClosed

\* a packet that the receive routine read after the hand-over came back to
\* Peer.send while its hash was in the pool, and was refused
ReadPacketRefused ==
  \E t \in Senders :
    /\ pc[t] = "ret" /\ sret[t] = "ErrDuplicatedPacket"
    /\ spkt[t].sender = id /\ ~spkt[t].force
    /\ spkt[t].h \in received \ LifeHashes
    /\ PoolContains(pool, spkt[t].h)

\* C10: the packets of one priority are written in the order of their
\* pushes: on the wire, in the queue, and between the two.
WireOrderIsEnqueueOrder ==
  /\ \A i, j \in DOMAIN wire :
       (i < j /\ wire[i].pkt.prio = wire[j].pkt.prio) => wire[i].seq < wire[j].seq
  /\ \A p \in Prios : \A i, j \in DOMAIN q[p] :
       i < j => q[p][i].seq < q[p][j].seq
  /\ \A p \in Prios : \A i \in DOMAIN q[p] : \A k \in DOMAIN wire :
       wire[k].pkt.prio = p => wire[k].seq < q[p][i].seq
  /\ \A c \in AllCtx : c.seq \in 1..nextSeq

\* two packets of one priority and of different hashes were pushed and both
\* were written
TwoOfOnePriorityWritten ==
  /\ Len(wire) = 2
  /\ wire[1].pkt.prio = wire[2].pkt.prio
  /\ wire[1].pkt.h # wire[2].pkt.h
  /\ wire[1].seq = 1 /\ wire[2].seq = 2

\* C11 as the spec has it: in one drain (from one signal of the queue until
\* Pop returns nil) at most one packet is written while a more urgent one
\* waits.
OneInversionPerDrain == inv <= 1

\* C11: every Pop of the send routine takes the head of the most urgent level
\* that is not empty, so no packet is written while a more urgent packet that
\* was queued at the Pop waits; a more urgent packet pushed after the Pop
\* waits for the one packet in flight, once per Pop and not once per drain.
PopTakesMostUrgent ==
  [][(pc["send"] = "pop" /\ pc'["send"] = "write")
       => /\ ~MoreUrgentWaits(q, srPkt'.pkt.prio)
          /\ srPkt' = Head(q[srPkt'.pkt.prio])
          /\ q' = [q EXCEPT ![srPkt'.pkt.prio] = Tail(@)]]_vars

\* a less urgent packet was written while a more urgent one, pushed after the
\* Pop, waited; the next Pop took the more urgent one past a less urgent one
UrgentPoppedPastWaiting ==
  /\ pc["send"] = "write"
  /\ inv = 1
  /\ \E p \in Prios : p > srPkt.pkt.prio /\ q[p] # <<>>

\* C12: while the peer is open and the writes succeed, a packet that waits in
\* any level of the queue is eventually popped and written, also when more
\* urgent packets keep being pushed.
EveryLevelIsWritten ==
  \A p \in Prios :
    (q[p] # <<>>) ~> (pc["send"] = "put" /\ srPkt.pkt.prio = p)

\* C13: a Push of Peer.send at priority p fails with ErrQueueOverflow exactly
\* when level p holds QueueSize packets, and then the queue is as it was;
\* otherwise the packet is appended to level p and nothing else changes, so a
\* full level does not make a send at another level fail.  No level ever
\* holds more than QueueSize packets.
OverflowPerLevel ==
  /\ [](\A p \in Prios : Len(q[p]) <= QueueSize)
  /\ [][\A t \in Senders :
          (pc[t] = "push" /\ pc'[t] = "ret")
            => LET p == spkt[t].prio
               IN IF Len(q[p]) = QueueSize
                  THEN sret'[t] = "ErrQueueOverflow" /\ q' = q
                  ELSE /\ sret'[t] = "nil"
                       /\ Len(q'[p]) = Len(q[p]) + 1
                       /\ SubSeq(q'[p], 1, Len(q[p])) = q[p]
                       /\ \A r \in Prios \ {p} : q'[r] = q[r]]_vars

\* a send found its level full and failed, after a send at another level had
\* succeeded while that level was full already
OverflowAfterOtherLevelPushed ==
  \E t \in Senders :
    /\ pc[t] = "ret" /\ sret[t] = "ErrQueueOverflow"
    /\ wire = <<>> /\ srPkt = NoPacket
    /\ Len(q[spkt[t].prio]) = QueueSize
    /\ \E r \in Prios \ {spkt[t].prio} :
         \E i \in 1..Len(q[r]) : q[r][i].seq > QueueSize

\* the number of packets in the queue
RECURSIVE QLen(_, _)
QLen(qq, n) == IF n = 0 THEN 0 ELSE Len(qq[n - 1]) + QLen(qq, n - 1)

\* C14: a Peer.send call that is past the closed check has counted itself in
\* 'peer' and in nothing else; when it returns it returns
\* ErrDuplicatedPacket, ErrQueueOverflow or nil and has counted itself in
\* duplicate, overflow or enqueue respectively and in no other, so that
\* peer = duplicate + overflow + enqueue = 1 for the call.  The step that
\* returns nil adds one packet to the queue, the step that returns an error
\* leaves the queue as it was.
SendOutcomeCounted ==
  /\ [](\A t \in Senders :
         /\ pc[t] \in {"chk", "push"} => cnt[t] = [NoCount EXCEPT !.peer = 1]
         /\ (pc[t] = "ret" /\ sret[t] # "ErrNotAvailable")
              => /\ sret[t] \in {"ErrDuplicatedPacket", "ErrQueueOverflow", "nil"}
                 /\ cnt[t].peer = 1
                 /\ cnt[t].duplicate = (IF sret[t] = "ErrDuplicatedPacket" THEN 1 ELSE 0)
                 /\ cnt[t].overflow = (IF sret[t] = "ErrQueueOverflow" THEN 1 ELSE 0)
                 /\ cnt[t].enqueue = (IF sret[t] = "nil" THEN 1 ELSE 0)
                 /\ cnt[t].peer
                      = cnt[t].duplicate + cnt[t].overflow + cnt[t].enqueue)
  /\ [][\A t \in Senders :
          (pc[t] \in {"chk", "push"} /\ pc'[t] = "ret")
            => IF sret'[t] = "nil"
               THEN QLen(q', NumPrio) = QLen(q, NumPrio) + 1
               ELSE q' = q]_vars

\* a call returned ErrDuplicatedPacket while packets of earlier calls wait in
\* the queue, one level of which is full
DuplicateCountedQueueKept ==
  \E t \in Senders :
    /\ pc[t] = "ret" /\ sret[t] = "ErrDuplicatedPacket"
    /\ cnt[t].duplicate = 1
    /\ \E p \in Prios : Len(q[p]) = QueueSize

\* C15: a Peer.send call that finds the peer closed returns ErrNotAvailable
\* at once: its step changes neither the counters of its context nor the
\* pool nor the queue, and the call takes no further step before it returns.
\* A call that finds the peer open goes on to the duplicate check.
ClosedPeerNotAvailable ==
  /\ [](\A t \in Senders :
         (pc[t] = "ret" /\ sret[t] = "ErrNotAvailable") => cnt[t] = NoCount)
  /\ [][\A t \in Senders :
          (pc[t] = "idle" /\ pc'[t] # "idle")
            => IF closed = 1
               THEN /\ pc'[t] = "ret" /\ sret'[t] = "ErrNotAvailable"
                    /\ cnt' = cnt /\ pool' = pool
                    /\ q' = q /\ nextSeq' = nextSeq
               ELSE pc'[t] = "chk" /\ sret'[t] = "none"]_vars

\* after an earlier call had pushed its packet the peer was closed, and the
\* next call got ErrNotAvailable
SendToClosedPeerReturned ==
  \E t \in Senders :
    /\ pc[t] = "ret" /\ sret[t] = "ErrNotAvailable"
    /\ closed = 1 /\ nextSeq >= 1

\* C16: once the peer is closed no packet is written to its connection: a
\* sendDirect that starts after the close writes nothing.
NoWriteAfterClose == [][Len(wire') > Len(wire) => closed = 0]_vars

\* C17: at most one goroutine is inside sendDirect between Lock and Unlock,
\* and it is the holder of sendMtx; what one sendDirect gives to the
\* connection is one piece: the packet written by a goroutine is followed by
\* that goroutine's flush (or its failure), or that goroutine has still to
\* flush, and nothing of another goroutine comes between.
WritesExclusive ==
  /\ Cardinality({t \in DirectThreads : InDirect(t)}) <= 1
  /\ \A t \in DirectThreads : InDirect(t) => sendMtx = t
  /\ \A i \in 1..Len(raw) :
       raw[i].part = "packet"
         => IF i = Len(raw)
            THEN pc[raw[i].by] = "sd_flush"
            ELSE raw[i + 1].by = raw[i].by /\ raw[i + 1].part \in {"flush", "fail"}

\* the send routine and a goroutine in sendMessage have each written and
\* flushed a packet, and another goroutine waits for the mutex that a
\* writer holds
TwoWritersOneWaiting ==
  /\ \E i, j \in 1..Len(raw) :
       /\ raw[i] = [by |-> "send", part |-> "flush"]
       /\ raw[j].by # "send" /\ raw[j].part = "flush"
  /\ \E t, u \in DirectThreads : InDirect(t) /\ pc[u] = "sd_lock"

\* C18: on a connection that has temporary errors only, and with nobody else
\* closing it, the peer stays open: neither a read error nor a write error
\* that is temporary closes it.
TemporaryErrorsKeepOpen == closed = 0

\* C19: a panic in the receive routine or in the send routine never ends the
\* process: no goroutine is ever stopped by a panic that nothing recovered.
PanicNeverEndsProcess == \A t \in Threads : pc[t] # "crashed"

\* C20: Peer.once runs its function at most once, and has run it exactly
\* when a packet callback that is not nil has been set; before that neither
\* routine runs (newPeer's setPacketCbFunc(nil) starts none).  The step that
\* runs it is the first setPacketCbFunc with a callback and starts both
\* routines; a later setPacketCbFunc leaves the count and the send routine
\* as they are.
RoutinesStartedOnce ==
  /\ [](/\ once <= 1
        /\ once = 0 <=> cbPacket = NoHandler
        /\ once = 0 => pc["recv"] = "idle" /\ pc["send"] = "idle")
  /\ [][once' # once
         => /\ once = 0 /\ once' = 1
            /\ cbPacket = NoHandler /\ cbPacket' # NoHandler
            /\ pc["recv"] = "idle" /\ pc'["recv"] = "read"
            /\ pc["send"] = "idle" /\ pc'["send"] = "select"]_vars
  /\ [][(cbPacket # NoHandler /\ cbPacket' # cbPacket)
         => once' = once /\ pc'["send"] = pc["send"]]_vars

\* the peer went from dispatchPeer through both handlers to an overlay, four
\* setPacketCbFunc calls with a callback, and the routines were started once
FourSettersOneStart ==
  /\ once = 1
  /\ Len(passed) = 2 /\ handed # {}
  /\ cbPacket \in Overlays

\* C21: a hash leaves the duplicate pool only in a sweep of the running send
\* routine and only when it is older than PoolExpire seconds; a sweep drops
\* every hash that old and keeps every younger one; and a packet whose hash
\* the pool holds no more is not stopped by the pool.
PoolExpiry ==
  /\ [][\A h \in Hashes :
          (pool[h] >= 0 /\ pool'[h] = -1)
            => pool[h] > PoolExpire /\ pc["send"] = "select" /\ sweepDue]_vars
  /\ [][(sweepDue /\ ~sweepDue')
          => \A h \in Hashes :
               pool'[h] = (IF pool[h] > PoolExpire THEN -1 ELSE pool[h])]_vars
  /\ [][\A t \in Senders :
          (pc[t] = "chk" /\ pc'[t] = "ret" /\ pool[spkt[t].h] = -1)
            => (spkt[t].sender = id /\ ~spkt[t].force)]_vars

\* a hash read from the peer went into the pool, grew older than PoolExpire
\* and was swept, and a packet with that hash was then enqueued
ExpiredHashEnqueuedAgain ==
  \E h \in received \ LifeHashes :
    /\ pool[h] = -1
    /\ \E p \in Prios : \E i \in 1..Len(q[p]) :
         q[p][i].pkt.h = h /\ ~q[p][i].inPool /\ q[p][i].pkt.sender = "nil"

\* C22: Close returns ErrAlreadyClosed exactly when the listener is not open
\* (l.ln is nil); on an open listener it closes it and does not fail.
CloseOnlyErrsWhenClosed ==
  [][\A c \in LsnCallers :
       (lsn.lpc[c] = "close" /\ lsn'.lpc[c] # "close")
         => (lsn'.ret[c] = "ErrAlreadyClosed" <=> lsn.ln = "nil")]_vars

\* C23: once the peer's id has been set to a non-nil value, no step of any
\* operation changes it.
IdNeverChanges == [][id # "nil" => id' = id]_vars

\* the id was set by the handshake and the peer has since read further packets
\* and been closed
IdSetThenPeerUsedAndClosed ==
  /\ id # "nil" /\ authRound = AuthRounds
  /\ reads > AuthRounds /\ closed = 1

\* C24: a read of a property of the peer never runs while another goroutine
\* writes the same property; in particular ID() and setID() exclude each
\* other.
FieldAccessExclusive ==
  \A f \in Fields : \A g, h \in FieldCallers :
    g # h => ~(Writes(g, f) /\ Touches(h, f))

\* the events expired was called with for timer i
ExpiredOf(i) == {n \in DOMAIN syn.expired : syn.expired[n].timer = i}

\* C25: a request whose Unicast succeeds sends a message with reqID
\* p.reqID + 1, stores that value in p.reqID, and arms, as p.timer, a timer of
\* configExpiredTime milliseconds; a timer that is not stopped calls expired
\* once, not before its time, with receiveTimeExpired, the protocol of the
\* reply to its request (protoResult for hasNode, protoNodeData for
\* requestNodeData) and the peer of the request; a stopped timer never does.
RequestArmsTimer ==
  /\ [][(syn'.calls # syn.calls /\ syn'.ret = "nil") =>
          LET n == Len(syn'.sent)
              m == syn'.sent[n]
              k == Len(syn'.timers)
              t == syn'.timers[k]
          IN /\ n = Len(syn.sent) + 1 /\ k = Len(syn.timers) + 1
             /\ m.reqID = syn.reqID[m.to] + 1
             /\ syn'.reqID = [syn.reqID EXCEPT ![m.to] = m.reqID]
             /\ syn'.ptimer = [syn.ptimer EXCEPT ![m.to] = k]
             /\ t.state = "armed" /\ t.peer = m.to
             /\ t.due = syn.now + configExpiredTime
             /\ \/ m.proto = "protoHasNode" /\ t.proto = "protoResult"
                \/ m.proto = "protoRequestNodeData" /\ t.proto = "protoNodeData"]_vars
  /\ [](\A i \in DOMAIN syn.timers :
          LET t == syn.timers[i]
          IN /\ t.state = "armed" => syn.now <= t.due
             /\ t.state \in {"running", "done"} => syn.now >= t.due
             /\ Cardinality(ExpiredOf(i)) = (IF t.state = "done" THEN 1 ELSE 0)
             /\ \A n \in ExpiredOf(i) :
                  /\ syn.expired[n].msgType = "receiveTimeExpired"
                  /\ syn.expired[n].peer = t.peer
                  /\ syn.expired[n].proto = t.proto)

\* the timers of a hasNode to one peer and of a requestNodeData to the other
\* have both called expired, and a third timer was stopped by a reply
BothKindsExpiredOneStopped ==
  \E i, j, k \in DOMAIN syn.timers :
    /\ syn.timers[i].state = "done" /\ syn.timers[i].proto = "protoResult"
    /\ syn.timers[j].state = "done" /\ syn.timers[j].proto = "protoNodeData"
    /\ syn.timers[i].peer # syn.timers[j].peer
    /\ syn.timers[k].state = "stopped"

\* C26: a sync peer never has more than one armed timer.
OneArmedTimerPerPeer ==
  \A p \in SyncPeers :
    Cardinality({i \in DOMAIN syn.timers :
                   syn.timers[i].peer = p /\ syn.timers[i].state = "armed"}) <= 1

\* C27: the request id an expired event leads to is that of the request whose
\* timer ran out, so the timeout of an earlier request is never taken for the
\* timeout of a later one.
ExpiredCarriesItsReqID ==
  \A n \in DOMAIN syn.expired :
    syn.expired[n].reqID = syn.timers[syn.expired[n].timer].req

\* the messages given to Unicast for peer p before the n-th that it took
TakenBefore(p, n) ==
  {k \in 1..(n - 1) : syn.tried[k].to = p /\ syn.tried[k].ok}

\* C30: a request whose Unicast fails returns the error and leaves p.reqID,
\* p.timer and the timers as they were, so that every request to a peer
\* carries one more than the number of requests to it that succeeded before.
FailedRequestChangesNothing ==
  /\ [][(syn'.calls # syn.calls /\ syn'.ret # "nil") =>
          /\ syn'.ret = "err"
          /\ syn'.reqID = syn.reqID /\ syn'.ptimer = syn.ptimer
          /\ syn'.timers = syn.timers /\ syn'.sent = syn.sent]_vars
  /\ [](\A n \in DOMAIN syn.tried :
          syn.tried[n].reqID = Cardinality(TakenBefore(syn.tried[n].to, n)) + 1)

\* a request to a peer succeeded, the next one to it failed, and the one
\* after that was sent with the request id of the failed one
FailedReqIDUsedAgain ==
  /\ Len(syn.tried) = 3
  /\ \A n \in 1..3 : syn.tried[n].to = "p1"
  /\ syn.tried[1].ok /\ ~syn.tried[2].ok /\ syn.tried[3].ok
  /\ syn.tried[2].reqID = 2 /\ syn.tried[3].reqID = 2
  /\ syn.timers[1].state # "armed" /\ syn.ptimer["p1"] = 2

\* the address is host:port or [host]:port, the colon before the port being
\* the only one outside the brackets, with no other bracket
HostPortForm(a) ==
  \E i \in DOMAIN a :
    LET host == SubSeq(a, 1, i - 1)
        port == SubSeq(a, i + 1, Len(a))
        plain(w) == \A k \in DOMAIN w : w[k] \notin {"[", "]"}
    IN /\ a[i] = ":"
       /\ \A k \in DOMAIN port : port[k] \notin {":", "[", "]"}
       /\ \/ plain(host) /\ \A k \in DOMAIN host : host[k] # ":"
          \/ /\ Len(host) >= 2 /\ host[1] = "[" /\ host[Len(host)] = "]"
             /\ plain(SubSeq(host, 2, Len(host) - 1))

\* what follows the last colon
PortOf(a) == SubSeq(a, LastIndexByte(a, ":") + 1, Len(a))

\* w without its leading zeros
RECURSIVE NoLeadingZeros(_)
NoLeadingZeros(w) ==
  IF w # <<>> /\ w[1] = "0" THEN NoLeadingZeros(Tail(w)) ELSE w

\* the digits w, none of them a leading zero, spell a number up to 65535
AtMost65535(w) ==
  LET top == <<"6", "5", "5", "3", "5">>
  IN \/ Len(w) < 5
     \/ /\ Len(w) = 5
        /\ \/ w = top
           \/ \E k \in 1..5 : /\ \A j \in 1..(k - 1) : w[j] = top[j]
                              /\ DigitVal(w[k]) < DigitVal(top[k])

\* the port is written in decimal digits, with or without a plus sign, and
\* its value is between 1 and 65535
PortInRange(port) ==
  LET d == IF port # <<>> /\ port[1] = "+" THEN Tail(port) ELSE port
      z == NoLeadingZeros(d)
  IN /\ d # <<>> /\ \A k \in DOMAIN d : d[k] \in Digits
     /\ z # <<>>
     /\ AtMost65535(z)

\* C29: Validate returns nil exactly when the address has the form host:port
\* and the port is a decimal integer from 1 to 65535; every other address
\* yields an error.
ValidateExact ==
  adr.st = "done" =>
    (adr.err = "nil" <=> (HostPortForm(adr.a) /\ PortInRange(PortOf(adr.a))))

\* Validate has accepted the address with the greatest port, 65535
GreatestPortAccepted ==
  /\ adr.st = "done" /\ adr.err = "nil"
  /\ adr.a = <<"h", ":", "6", "5", "5", "3", "5">>

RouteOf(t) ==
  LET o == mgr.op[t]
  IN CASE mgr.pool[o.id] = -1 -> "none"
       [] mgr.pool[o.id] # -1 /\ o.pi \in {"protoHasNode", "protoRequestNodeData"}
            -> "server"
       [] mgr.pool[o.id] # -1 /\ o.pi \in {"protoResult", "protoNodeData"}
            /\ mgr.syncing -> "syncer"
       [] OTHER -> "none"

\* C31: Manager.OnReceive delivers a message of an unknown peer to nobody, a
\* HasNode or RequestNodeData of a pooled peer to the server whether syncing
\* or not, a Result or NodeData of a pooled peer to the syncer while syncing
\* and to nobody otherwise; when it returns it returns (false, nil)
OnReceiveRoutes ==
  [][\A t \in MgrThreads :
       mgr.op[t].name = "OnReceive" =>
         /\ (mgr.mpc[t] = "body" /\ mgr'.mpc[t] \in {"unlock", "cbLock"})
              => /\ mgr'.out[t].to = RouteOf(t)
                 /\ mgr'.out[t].to # "none"
                      => /\ mgr'.out[t].what = mgr.op[t].pi
                         /\ mgr'.out[t].id = mgr.op[t].id
         /\ (mgr.mpc[t] = "unlock" /\ mgr'.mpc[t] = "idle")
              => mgr'.ret[t] = "false, nil"]_vars

\* C31 witness: one OnReceive returned after the syncer got its message, the
\* other after the server got its message
BothRoutesTaken ==
  \E t, u \in MgrThreads :
    /\ mgr.op[t].name = "OnReceive" /\ mgr.ret[t] = "false, nil"
    /\ mgr.out[t].to = "syncer"
    /\ mgr.op[u].name = "OnReceive" /\ mgr.ret[u] = "false, nil"
    /\ mgr.out[u].to = "server"

\* C32: OnJoin puts the peer into the pool with reqID 0, OnLeave of a pooled
\* peer takes it out, OnLeave of an unknown peer changes nothing and tells
\* nobody, nothing else changes the pool; while syncing the syncer is told
\* of each join and of each leave of a pooled peer, the peer still in the
\* pool when it is told of the leave
PoolFollowsJoinLeave ==
  [][\A t \in MgrThreads :
       LET o == mgr.op[t]
           done == mgr.mpc[t] = "body" /\ mgr'.mpc[t] = "unlock"
           told == mgr.mpc[t] = "body" /\ mgr'.mpc[t] \in {"unlock", "cbLock"}
       IN /\ (o.name = "OnJoin" /\ told)
               => /\ mgr'.pool = [mgr.pool EXCEPT ![o.id] = 0]
                  /\ mgr.syncing
                       => mgr'.out[t] = [to |-> "syncer", what |-> "onJoin",
                                         id |-> o.id, inPool |-> TRUE]
                  /\ ~mgr.syncing => mgr'.out[t] = NoOut
          /\ (o.name = "OnLeave" /\ told /\ mgr.pool[o.id] = -1)
               => mgr'.pool = mgr.pool /\ mgr'.out[t] = NoOut
          /\ (o.name = "OnLeave" /\ told /\ mgr.pool[o.id] # -1)
               => /\ done => mgr'.pool = [mgr.pool EXCEPT ![o.id] = -1]
                  /\ mgr.syncing
                       => mgr'.out[t] = [to |-> "syncer", what |-> "onLeave",
                                         id |-> o.id, inPool |-> TRUE]
                  /\ ~mgr.syncing => mgr'.out[t] = NoOut
          /\ (mgr'.pool # mgr.pool)
               => \E u \in MgrThreads :
                    /\ mgr.mpc[u] = "body" /\ mgr'.mpc[u] # "body"
                    /\ mgr.op[u].name \in {"OnJoin", "OnLeave"}]_vars

\* C32 witness: a peer joined and left while syncing, the syncer was told of
\* the leave and the peer is out of the pool, the other peer is in it
LeftWhileSyncing ==
  \E t \in MgrThreads : \E other \in MgrPeers :
    /\ mgr.op[t].name = "OnLeave" /\ mgr.ret[t] = "returned"
    /\ mgr.out[t].what = "onLeave" /\ mgr.out[t].inPool
    /\ mgr.pool[mgr.op[t].id] = -1
    /\ other # mgr.op[t].id /\ mgr.pool[other] = 0

\* C33: while the Manager is syncing it has a syncer
SyncingHasSyncer == mgr.syncing => mgr.syncer # 0

\* C34: a goroutine that holds the mutex of the Manager releases it
MutexReleased ==
  \A t \in MgrThreads : (mgr.mutex = t) ~> (mgr.mutex # t)

\* C35: once the routines of a peer run, its packet, error and close
\* callbacks are those of one handler, and every event of the peer went to
\* a handler or an overlay whose onPeer had been called for it
RewiringAtomic ==
  /\ once > 0 => cbPacket = cbError /\ cbError = cbClose
  /\ \A e \in events : e.to \in onPeerCalled \cup handed

\* C36: no packet is pushed onto the send queue of a closed peer
NoPushAfterClose == [][closed = 1 => nextSeq' = nextSeq]_vars

\* C37: once the peer is closed its send routine and its receive routine
\* end and the goroutines waiting in WaitClose return; and when the receive
\* routine has ended, for whatever reason, the peer is closed
ClosedPeerWindsUp ==
  /\ (closed = 1) ~> (pc["recv"] = "done" /\ pc["send"] = "done")
  /\ \A t \in Waiters : (pc[t] = "wc_wait" /\ closed = 1) ~> (pc[t] = "wc_ret")
  /\ [](pc["recv"] = "done" => closed = 1)

\* C37 witness: after a failed read and a write the peer was closed, both routines
\* have ended and the goroutine that called WaitClose has returned
WoundUp ==
  /\ closed = 1 /\ pc["recv"] = "done" /\ pc["send"] = "done"
  /\ pc["s1"] = "wc_ret"
  /\ reads > 0 /\ Len(wire) > 0

\* C38: the balances of a deployed token add up to its total supply and none
\* is negative
SupplyConserved ==
  tok.st = "live" =>
    /\ SumOf(tok.balances, TokenAddrs) = tok.totalSupply
    /\ \A a \in TokenAddrs : tok.balances[a] >= 0

\* the least of two numbers
MinOf(a, b) == IF a <= b THEN a ELSE b

\* C39: a wait call with a default or a requested timeout of zero or less
\* is rejected with nothing submitted; otherwise the effective timeout is
\* the lesser of the requested and the greatest one, a timeout is the system
\* timeout exactly when the requested one was above the greatest, and a
\* result that arrived before the timer was due is not answered by a timeout
WaitCallTimeouts ==
  /\ (rpc.st # "idle" /\ (rpc.dt <= 0 \/ rpc.ut <= 0)) => ~rpc.submitted
  /\ (rpc.st # "idle" /\ rpc.dt <= 0) => rpc.out \in {"MethodNotFound", "Server"}
  /\ rpc.submitted => rpc.timeout = MinOf(rpc.ut, rpc.mt)
  /\ rpc.out = "SystemTimeout" => rpc.ut > rpc.mt /\ rpc.clock >= rpc.timeout
  /\ rpc.out = "Timeout" => rpc.ut <= rpc.mt /\ rpc.clock >= rpc.timeout
  /\ rpc.fcFirst => rpc.out \notin {"SystemTimeout", "Timeout"}

====
